---- MODULE Spec2Model ----
(***************************************************************************)
(* Model of the gl-chat backend: the unified chat endpoint                 *)
(* (app/routes/chat.py), the router (app/services/chat_service.py), the    *)
(* three handlers (app/services/handlers) and the dashboard handler's      *)
(* context formatter and response normalizer.                              *)
(*                                                                         *)
(* JSON values are tagged records, so that Python's dynamic typing         *)
(* (truthiness, .get on a non-dict, len of a non-sequence) can be stated.  *)
(***************************************************************************)
EXTENDS Integers, Sequences, FiniteSets, TLC

VARIABLES
    request,        \* JSON body of the request being handled by the unified endpoint
    pc,             \* where that request is: idle, validate, dispatch, engine, done
    dispatched,     \* process_unified_query has been called for the request
    invoked,        \* the handlers whose process_query has been called for it
    prompt,         \* the messages sent to the completion engine for it
    completion,     \* what the completion engine gave back for it
    http,           \* the endpoint's answer
    llm_response,   \* a raw reply given to the normalizer on its own
    parsed,         \* _parse_llm_response(llm_response)
    reparsed,       \* _parse_llm_response(json.dumps(parsed))
    store,          \* the documents of the chatmessages collection
    clock,          \* datetime.now(), in ticks; one tick passes with every save
    hrequest,       \* the request being handled by a history endpoint
    hpc,            \* where that request is: idle, auth, store, done
    storeOps,       \* the collection operations performed for that request
    failed,         \* a collection operation of that request raised
    hhttp,          \* the history endpoint's answer
    cleared,        \* text of the user whose DELETE succeeded with no save since
    slots,          \* the requests in flight on the one event loop, by slot
    loop,           \* the slot whose coroutine is running without suspension, or 0
    service,        \* the attributes of the ChatService singleton and its handlers
    inserted        \* the number of documents insert_one has added

endpointVars == <<request, pc, dispatched, invoked, prompt, completion, http>>
normVars == <<llm_response, parsed, reparsed>>
historyVars == <<store, clock, hrequest, hpc, storeOps, failed, hhttp, cleared>>
concVars == <<slots, loop, service, inserted>>
vars == <<request, pc, dispatched, invoked, prompt, completion, http,
          llm_response, parsed, reparsed,
          store, clock, hrequest, hpc, storeOps, failed, hhttp, cleared,
          slots, loop, service, inserted>>

---------------------------------------------------------------------------
(* JSON values as Python sees them after json.loads.                       *)

JNull == [k |-> "null"]
JBool(b) == [k |-> "bool", b |-> b]
JNum(n) == [k |-> "num", n |-> n]
JStr(s) == [k |-> "str", s |-> s]
JList(q) == [k |-> "list", items |-> q]
JObj(f) == [k |-> "obj", m |-> f]

EmptyMap == [z \in {} |-> JNull]

\* Python truthiness: None, False, 0, "", [] and {} are falsy.
Truthy(v) ==
    CASE v.k = "null" -> FALSE
      [] v.k = "bool" -> v.b
      [] v.k = "num"  -> v.n # 0
      [] v.k = "str"  -> v.s # ""
      [] v.k = "list" -> v.items # <<>>
      [] v.k = "obj"  -> DOMAIN v.m # {}
      [] v.k = "text" -> v.toks # <<>>

IsObj(v) == v.k = "obj"

\* key in d, for a dict d.
Has(d, key) == key \in DOMAIN d.m

\* d.get(key): None when the key is absent.
Get(d, key) == IF key \in DOMAIN d.m THEN d.m[key] ELSE JNull

\* d.get(key, default).
GetOr(d, key, default) == IF key \in DOMAIN d.m THEN d.m[key] ELSE default

\* any(d.values()) for a dict d.
AnyValue(d) == \E key \in DOMAIN d.m : Truthy(d.m[key])

\* x is not None.
NotNone(v) == v.k # "null"

---------------------------------------------------------------------------
(* Text of a completion-engine reply: a sequence of tokens.  "fence" is    *)
(* the three back-ticks, "json" the language tag written right after an    *)
(* opening fence, "ws" a run of whitespace, "prose" text that is no JSON,  *)
(* and "value" the JSON text of the value v.                               *)

TokWs == [t |-> "ws", v |-> JNull]
TokFence == [t |-> "fence", v |-> JNull]
TokJson == [t |-> "json", v |-> JNull]
TokProse == [t |-> "prose", v |-> JNull]
TokValue(v) == [t |-> "value", v |-> v]

\* A reply is the message content: None, or a text.
NoContent == [none |-> TRUE, toks |-> <<>>]
Text(toks) == [none |-> FALSE, toks |-> toks]

RECURSIVE LStrip(_)
LStrip(s) == IF s # <<>> /\ Head(s) = TokWs THEN LStrip(Tail(s)) ELSE s

RECURSIVE RStrip(_)
RStrip(s) ==
    IF s # <<>> /\ s[Len(s)] = TokWs THEN RStrip(SubSeq(s, 1, Len(s) - 1)) ELSE s

\* str.strip()
Strip(s) == RStrip(LStrip(s))

\* s.startswith('```json')
StartsWithJsonFence(s) == Len(s) >= 2 /\ s[1] = TokFence /\ s[2] = TokJson

\* s.endswith('```')
EndsWithFence(s) == s # <<>> /\ s[Len(s)] = TokFence

\* Lines 320-324: strip, then cut an opening ```json and a closing ```.
CleanedResponse(s) ==
    LET stripped == Strip(s)
        opened == IF StartsWithJsonFence(stripped)
                  THEN SubSeq(stripped, 3, Len(stripped)) ELSE stripped
    IN  IF EndsWithFence(opened) THEN SubSeq(opened, 1, Len(opened) - 1) ELSE opened

\* json.loads accepts exactly one JSON value with optional whitespace around
\* it; anything else is a JSONDecodeError.
JsonDecodes(s) == Len(Strip(s)) = 1 /\ Strip(s)[1].t = "value"
JsonLoads(s) == Strip(s)[1].v

\* json.dumps of a value: its JSON text, no fence and no padding.
JsonDumps(v) == Text(<<TokValue(v)>>)

\* The string content.strip(), as a value of a response.
JText(toks) == [k |-> "text", toks |-> Strip(toks)]

---------------------------------------------------------------------------
(* DashboardHandler._parse_llm_response                                    *)

DefaultMessage == JStr("I've updated the view according to your request.")
ParseErrorMessage == JStr("I encountered an error processing the response. Please try again.")
UnexpectedErrorMessage == JStr("I encountered an unexpected error. Please try again.")
GenericErrorMessage == JStr("I encountered an error processing your request. Please try again.")

MessageOnly(msg) == JObj([key \in {"response_message"} |-> msg])

\* Line 335: the filters block is entered.
FiltersEntered(d) == Has(d, "filters") /\ Truthy(d.m["filters"])

\* Line 346: filters.get("timeRange") and any(filters["timeRange"].values())
TimeRangePresent(f) == Truthy(Get(f, "timeRange")) /\ AnyValue(f.m["timeRange"])

\* Lines 350 and 357: price.get("min") is not None or price.get("max") is not None
PriceHasBound(p) == NotNone(Get(p, "min")) \/ NotNone(Get(p, "max"))

\* Line 350: filters.get("price") and (...)
NestedPricePresent(f) == Truthy(Get(f, "price")) /\ PriceHasBound(f.m["price"])

\* Line 357: "price" in response_data and (...)
RootPricePresent(d) == Has(d, "price") /\ PriceHasBound(d.m["price"])

\* The statements of the try block that raise something other than a
\* JSONDecodeError, for the decoded value d:
\*  - d is no dict: `"filters" in d` is a TypeError for a number, a boolean
\*    and None; for a list or a string the membership tests pass or index
\*    with a str (TypeError), and line 363's d.get is an AttributeError;
\*  - filters truthy and no dict: filters.get is an AttributeError;
\*  - timeRange truthy and no dict: .values() is an AttributeError;
\*  - nested price truthy and no dict: .get is an AttributeError;
\*  - root price present and no dict (None included): .get is an
\*    AttributeError.
NormalizeRaises(d) ==
    \/ ~IsObj(d)
    \/ /\ FiltersEntered(d)
       /\ \/ ~IsObj(d.m["filters"])
          \/ Truthy(Get(d.m["filters"], "timeRange"))
                /\ ~IsObj(d.m["filters"].m["timeRange"])
          \/ Truthy(Get(d.m["filters"], "price"))
                /\ ~IsObj(d.m["filters"].m["price"])
    \/ Has(d, "price") /\ ~IsObj(d.m["price"])

\* Mutant of FinalFilters: categories is copied whenever the key is there.
FinalFiltersAnyCategories(f) ==
    LET keys == {key \in {"stores", "lists", "clearAll"} : Truthy(Get(f, key))}
                \cup (IF Has(f, "categories") THEN {"categories"} ELSE {})
                \cup (IF TimeRangePresent(f) THEN {"timeRange"} ELSE {})
                \cup (IF NestedPricePresent(f) THEN {"price"} ELSE {})
    IN  [key \in keys |-> f.m[key]]

\* Lines 337-351: the filter fields that have values.
FinalFilters(f) ==
    LET keys == {key \in {"categories", "stores", "lists", "clearAll"} :
                    Truthy(Get(f, key))}
                \cup (IF TimeRangePresent(f) THEN {"timeRange"} ELSE {})
                \cup (IF NestedPricePresent(f) THEN {"price"} ELSE {})
    IN  [key \in keys |-> f.m[key]]

\* Lines 334-360: the filters of the final response; EmptyMap when the key
\* is not set.  A root-level price is written over the nested one.
ResponseFilters(d) ==
    LET nested == IF FiltersEntered(d) THEN FinalFilters(d.m["filters"]) ELSE EmptyMap
    IN  IF RootPricePresent(d)
        THEN [key \in DOMAIN nested \cup {"price"} |->
                 IF key = "price" THEN d.m["price"] ELSE nested[key]]
        ELSE nested

\* Mutant of FiltersSet: line 353's test of final_filters is left out.
FiltersSetUnchecked(d) == FiltersEntered(d) \/ RootPricePresent(d)

\* Lines 353-354 and 357-359: final_response gets a filters key.
FiltersSet(d) ==
    \/ FiltersEntered(d) /\ DOMAIN FinalFilters(d.m["filters"]) # {}
    \/ RootPricePresent(d)

\* Lines 331-386: the final response of a decoded dict that raised nothing.
FinalResponse(d) ==
    LET filters == ResponseFilters(d)
        scalars == {key \in {"view_mode", "sort_by", "group_by", "generalResponse"} :
                       Truthy(Get(d, key))}
        keys == (IF FiltersSet(d) THEN {"filters"} ELSE {})
                \cup scalars
                \cup (IF Truthy(Get(d, "closeTabs")) THEN {"closeTabs"} ELSE {})
                \cup {"response_message"}
    IN  JObj([key \in keys |->
            CASE key = "filters" -> JObj(filters)
              [] key = "closeTabs" -> JBool(TRUE)
              [] key = "response_message" -> GetOr(d, "response_message", DefaultMessage)
              [] OTHER -> d.m[key]])

\* Lines 315-397.  A reply that is None raises at .strip() (AttributeError).
_parse_llm_response(reply) ==
    IF reply.none THEN MessageOnly(UnexpectedErrorMessage)
    ELSE LET cleaned == CleanedResponse(reply.toks)
         IN  IF ~JsonDecodes(cleaned) THEN MessageOnly(ParseErrorMessage)
             ELSE IF NormalizeRaises(JsonLoads(cleaned))
                  THEN MessageOnly(UnexpectedErrorMessage)
                  ELSE FinalResponse(JsonLoads(cleaned))

---------------------------------------------------------------------------
(* DashboardHandler._prepare_context.  The context block is a sequence of  *)
(* parts, each a heading with the value written under it.                  *)

Part(p, v) == [p |-> p, v |-> v]

\* len(v) > 0 for the values that have a length.
LenPositive(v) ==
    CASE v.k = "list" -> v.items # <<>>
      [] v.k = "obj"  -> DOMAIN v.m # {}
      [] OTHER        -> v.s # ""

\* len(v) is a TypeError for None, booleans and numbers.
LenRaises(v) == v.k \in {"null", "bool", "num"}

\* `for item in v: item.get(...)` raises unless v is a list of dicts (or an
\* empty string or dict): None, booleans and numbers are not iterable, a
\* string yields characters and a dict its keys, which have no .get.
ItemGetRaises(v) ==
    CASE v.k = "list" -> \E i \in DOMAIN v.items : ~IsObj(v.items[i])
      [] v.k = "obj"  -> DOMAIN v.m # {}
      [] v.k = "str"  -> v.s # ""
      [] OTHER        -> TRUE

\* Line 74: [item.get('name', '') for item in context.get('availableLists', [])]
AvailableListsRaises(context) ==
    ItemGetRaises(GetOr(context, "availableLists", JList(<<>>)))

ListNames(context) ==
    LET lists == GetOr(context, "availableLists", JList(<<>>))
    IN  IF lists.k = "list"
        THEN JList([i \in DOMAIN lists.items |-> GetOr(lists.items[i], "name", JStr(""))])
        ELSE JList(<<>>)

\* Lines 69-78: the available options, as written into the block.
AvailableOptions(context) ==
    JObj("Categories" :> GetOr(context, "availableCategories", JList(<<>>))
      @@ "Stores" :> GetOr(context, "availableStores", JList(<<>>))
      @@ "Lists" :> ListNames(context)
      @@ "View Modes" :> GetOr(context, "availableViewModes", JList(<<>>))
      @@ "Sort Options" :> GetOr(context, "availableSortOptions", JList(<<>>))
      @@ "Group Options" :> GetOr(context, "availableGroupOptions", JList(<<>>)))

\* Lines 91-96: filters.get(key) and len(filters.get(key)) > 0
UiListSet(filters, key) == Truthy(Get(filters, key)) /\ LenPositive(Get(filters, key))

\* Line 97: filters.get('timeRange') and any(filters.get('timeRange').values())
UiTimeRangeSet(filters) == Truthy(Get(filters, "timeRange")) /\ AnyValue(Get(filters, "timeRange"))

\* Line 99: filters.get('price') and (price.get('min') or price.get('max'))
UiPriceSet(filters) ==
    /\ Truthy(Get(filters, "price"))
    /\ \/ Truthy(Get(Get(filters, "price"), "min"))
       \/ Truthy(Get(Get(filters, "price"), "max"))

\* The tests of lines 91-99 (and 33-41) that raise on a wrongly-typed field.
UiListRaises(filters, key) == Truthy(Get(filters, key)) /\ LenRaises(Get(filters, key))
UiTimeRangeRaises(filters) == Truthy(Get(filters, "timeRange")) /\ ~IsObj(Get(filters, "timeRange"))
UiPriceRaises(filters) == Truthy(Get(filters, "price")) /\ ~IsObj(Get(filters, "price"))

\* Lines 88-100: filters_empty, for a truthy uiState that is a dict.
FiltersEmpty(ui_state) ==
    IF Truthy(Get(ui_state, "filters"))
    THEN LET filters == Get(ui_state, "filters")
         IN  ~ \/ UiListSet(filters, "categories")
               \/ UiListSet(filters, "stores")
               \/ UiListSet(filters, "lists")
               \/ UiTimeRangeSet(filters)
               \/ UiPriceSet(filters)
    ELSE TRUE

\* Line 107: the last conversation is written into the block.
HasLastConversation(context) ==
    /\ Truthy(Get(context, "lastConversation"))
    /\ Truthy(Get(Get(context, "lastConversation"), "query"))
    /\ Truthy(Get(Get(context, "lastConversation"), "response"))

\* The statements of _prepare_context that raise: .get on a context, uiState,
\* filters or lastConversation that is no dict, line 74, and the filter tests.
PrepareContextRaises(context) ==
    \/ ~IsObj(context)
    \/ AvailableListsRaises(context)
    \/ /\ Truthy(Get(context, "uiState"))
       /\ \/ ~IsObj(Get(context, "uiState"))
          \/ /\ Truthy(Get(Get(context, "uiState"), "filters"))
             /\ LET filters == Get(Get(context, "uiState"), "filters")
                IN  \/ ~IsObj(filters)
                    \/ UiListRaises(filters, "categories")
                    \/ UiListRaises(filters, "stores")
                    \/ UiListRaises(filters, "lists")
                    \/ UiTimeRangeRaises(filters)
                    \/ UiPriceRaises(filters)
    \/ Truthy(Get(context, "lastConversation")) /\ ~IsObj(Get(context, "lastConversation"))

\* Lines 62-119, for a context that raises nothing.
_prepare_context(context) ==
    LET ui_state == Get(context, "uiState")
        ui_state_empty == Truthy(ui_state) /\ FiltersEmpty(ui_state)
    IN  <<Part("CURRENT DATE", JNull), Part("AVAILABLE OPTIONS", AvailableOptions(context))>>
        \o (IF Truthy(ui_state) THEN <<Part("CURRENT UI STATE", ui_state)>> ELSE <<>>)
        \o (IF ui_state_empty THEN <<Part("ALL FILTERS HAVE BEEN MANUALLY CLEARED", JNull)>> ELSE <<>>)
        \o (IF HasLastConversation(context)
            THEN <<Part("LAST CONVERSATION", Get(context, "lastConversation"))>>
                 \o (IF ui_state_empty
                     THEN <<Part("NOTE: All filters have been cleared", JNull)>> ELSE <<>>)
            ELSE <<>>)

---------------------------------------------------------------------------
(* DashboardHandler.process_query, lines 29-42, and _get_llm_response.     *)

\* Line 31: context.get('uiState') and context['uiState'].get('filters')
UiFiltersTruthy(context) ==
    Truthy(Get(context, "uiState")) /\ Truthy(Get(Get(context, "uiState"), "filters"))

\* Lines 33-42: the if/elif chain stops at the first test that holds, so a
\* later wrongly-typed field raises only when every earlier test failed.
ExistingFiltersRaises(context) ==
    /\ UiFiltersTruthy(context)
    /\ LET filters == Get(Get(context, "uiState"), "filters")
       IN  \/ ~IsObj(filters)
           \/ UiListRaises(filters, "categories")
           \/ ~UiListSet(filters, "categories") /\ UiListRaises(filters, "stores")
           \/ /\ ~UiListSet(filters, "categories") /\ ~UiListSet(filters, "stores")
              /\ UiListRaises(filters, "lists")
           \/ /\ ~UiListSet(filters, "categories") /\ ~UiListSet(filters, "stores")
              /\ ~UiListSet(filters, "lists")
              /\ UiTimeRangeRaises(filters)
           \/ /\ ~UiListSet(filters, "categories") /\ ~UiListSet(filters, "stores")
              /\ ~UiListSet(filters, "lists")
              /\ ~UiTimeRangeSet(filters)
              /\ UiPriceRaises(filters)

\* Lines 30-42: has_existing_filters.
has_existing_filters(context) ==
    /\ UiFiltersTruthy(context)
    /\ LET filters == Get(Get(context, "uiState"), "filters")
       IN  \/ UiListSet(filters, "categories")
           \/ UiListSet(filters, "stores")
           \/ UiListSet(filters, "lists")
           \/ UiTimeRangeSet(filters)
           \/ UiPriceSet(filters)

\* Mutant of SystemPromptRules: the clarification rules are stated only when
\* no filter is applied.
SystemPromptRulesInverted(existing) ==
    {"DETERMINE QUERY TYPE", "PRIORITIZE CURRENT UI STATE",
     "ANSWERING A PREVIOUS QUESTION", "JSON RESPONSE FORMAT"}
    \cup (IF existing THEN {}
          ELSE {"ALWAYS ASK FOR CLARIFICATION WHEN EXISTING FILTERS ARE APPLIED",
                "PRICE AND TIME FILTERS MUST TRIGGER CLARIFICATION",
                "CLARIFICATION JSON ONLY INCLUDES response_message"})

\* Lines 124-288: the rules the system prompt states.  The text is one
\* literal; the has_existing_filters argument is not read.
SystemPromptRules(existing) ==
    {"DETERMINE QUERY TYPE",
     "ALWAYS ASK FOR CLARIFICATION WHEN EXISTING FILTERS ARE APPLIED",
     "PRICE AND TIME FILTERS MUST TRIGGER CLARIFICATION",
     "CLARIFICATION JSON ONLY INCLUDES response_message",
     "PRIORITIZE CURRENT UI STATE",
     "ANSWERING A PREVIOUS QUESTION",
     "JSON RESPONSE FORMAT"}

NoPrompt == [handler |-> "none", rules |-> {}, context |-> <<>>, query |-> JNull]

\* Lines 121-308: the messages sent to the completion engine.
_get_llm_response(query, context_str, existing) ==
    [handler |-> "dashboard",
     rules |-> SystemPromptRules(existing),
     context |-> context_str,
     query |-> query]

---------------------------------------------------------------------------
(* What the completion engine gives back to a handler: an error raised by  *)
(* the client, or a message with a content and, for the extension          *)
(* handler's function call, the call's arguments (NoContent for no call).  *)

EngineError == [error |-> TRUE, content |-> NoContent, arguments |-> NoContent]
EngineMessage(content, arguments) ==
    [error |-> FALSE, content |-> content, arguments |-> arguments]

\* A handler's step ends by returning a body or by raising to its caller.
Returned(body) == [raised |-> FALSE, body |-> body]
Raised == [raised |-> TRUE, body |-> JNull]

---------------------------------------------------------------------------
(* DashboardHandler.process_query                                          *)

\* Lines 56-60: the except clause of process_query.
DashboardOnException == Returned(MessageOnly(GenericErrorMessage))

\* Lines 21-48 raise before the engine is called.
DashboardPromptRaises(context) ==
    PrepareContextRaises(context) \/ ExistingFiltersRaises(context)

\* Lines 25-48: the prompt built for a context that raises nothing.
DashboardPrompt(query, context) ==
    _get_llm_response(query, _prepare_context(context), has_existing_filters(context))

\* Mutant of DashboardReturn: the engine's error is swallowed and the missing
\* reply is handed to the normalizer.
DashboardReturnSwallowsError(outcome) ==
    Returned(_parse_llm_response(outcome.content))

\* Lines 49-60, once the engine call of line 300 has ended: an engine error
\* is re-raised by line 313 and caught by line 56.
DashboardReturn(outcome) ==
    IF outcome.error THEN DashboardOnException
    ELSE Returned(_parse_llm_response(outcome.content))

---------------------------------------------------------------------------
(* SettingsHandler.process_query                                           *)

SettingsFallback ==
    JStr("I'm sorry, I encountered an error while processing your request. Please try again later.")

\* Mutant of SettingsOnException: the fallback is given under the key the
\* other handlers use.
SettingsOnExceptionAsMessage == Returned(MessageOnly(SettingsFallback))

\* Lines 143-147: the except clause.
SettingsOnException == Returned(JObj([key \in {"generalResponse"} |-> SettingsFallback]))

\* Lines 44 and 63: card.get(idKey, {}).get('cardInfo', {}).get('cardName', '')
CardRaises(card, path) ==
    \/ ~IsObj(card)
    \/ path # <<>> /\ ~IsObj(GetOr(card, path[1], JObj(EmptyMap)))
    \/ LET holder == IF path = <<>> THEN card ELSE GetOr(card, path[1], JObj(EmptyMap))
       IN  ~IsObj(GetOr(holder, "cardInfo", JObj(EmptyMap)))

\* available_cards[:3]
FirstThree(v) ==
    IF v.k = "list" /\ Len(v.items) > 3 THEN JList(SubSeq(v.items, 1, 3)) ELSE v

\* Lines 39-65: `cards.get(key) and len(cards.get(key, [])) > 0`, then the
\* loop over the cards (all of userCards, the first three of availableCards).
CardListRaises(cards, key, path) ==
    /\ Truthy(Get(cards, key))
    /\ LET looped == IF path = <<>> THEN FirstThree(Get(cards, key)) ELSE Get(cards, key)
       IN  \/ LenRaises(looped)
           \/ ItemGetRaises(looped)
           \/ \E i \in DOMAIN looped.items : CardRaises(looped.items[i], path)

\* v == True and v == False: Python also equates 1 with True and 0 with False.
EqTrue(v) == v = JBool(TRUE) \/ v = JNum(1)
EqFalse(v) == v = JBool(FALSE) \/ v = JNum(0)

\* Lines 68-89: m.get('active'), m.get('membership_id', {}).get('membership_name', '')
MembershipsRaise(memberships) ==
    \/ ItemGetRaises(memberships)
    \/ \E i \in DOMAIN memberships.items :
          /\ EqTrue(Get(memberships.items[i], "active"))
                \/ EqFalse(Get(memberships.items[i], "active"))
          /\ ~IsObj(GetOr(memberships.items[i], "membership_id", JObj(EmptyMap)))

\* Lines 26-123 raise before the engine is called.  The names of cards and
\* memberships are strings or absent in the contexts generated here.
SettingsPromptRaises(context_data) ==
    \/ ~IsObj(context_data)
    \/ Truthy(Get(context_data, "profile")) /\ ~IsObj(Get(context_data, "profile"))
    \/ /\ Truthy(Get(context_data, "creditCards"))
       /\ \/ ~IsObj(Get(context_data, "creditCards"))
          \/ CardListRaises(Get(context_data, "creditCards"), "userCards", <<"creditCardId">>)
          \/ CardListRaises(Get(context_data, "creditCards"), "availableCards", <<>>)
    \/ Truthy(Get(context_data, "memberships")) /\ MembershipsRaise(Get(context_data, "memberships"))
    \/ ~IsObj(GetOr(context_data, "lastConversation", JObj(EmptyMap)))

\* settings_handler.py lines 113-120 and extension_handler.py lines 56-60:
\* the last turn is added to the messages.
LastTurn(context_data) ==
    LET last == GetOr(context_data, "lastConversation", JObj(EmptyMap))
    IN  IF Truthy(last) /\ Truthy(Get(last, "query")) /\ Truthy(Get(last, "response"))
        THEN <<Part("user", Get(last, "query")), Part("assistant", Get(last, "response"))>>
        ELSE <<>>

\* Lines 27-105: the sentences of the system prompt.
SettingsSentences(context_data) ==
    {"settings assistant", "guidelines"}
    \cup (IF Truthy(Get(context_data, "profile")) THEN {"profile"} ELSE {})
    \cup (IF Truthy(Get(context_data, "creditCards"))
             /\ Truthy(Get(Get(context_data, "creditCards"), "userCards"))
          THEN {"saved credit cards"} ELSE {})
    \cup (IF Truthy(Get(context_data, "creditCards"))
             /\ Truthy(Get(Get(context_data, "creditCards"), "availableCards"))
          THEN {"available credit cards"} ELSE {})
    \cup (IF Truthy(Get(context_data, "memberships"))
             /\ \E i \in DOMAIN Get(context_data, "memberships").items :
                   /\ EqTrue(Get(Get(context_data, "memberships").items[i], "active"))
                   /\ Truthy(Get(GetOr(Get(context_data, "memberships").items[i],
                                       "membership_id", JObj(EmptyMap)), "membership_name"))
          THEN {"active memberships"} ELSE {})
    \cup (IF Truthy(Get(context_data, "memberships"))
             /\ \E i \in DOMAIN Get(context_data, "memberships").items :
                   /\ EqFalse(Get(Get(context_data, "memberships").items[i], "active"))
                   /\ Truthy(Get(GetOr(Get(context_data, "memberships").items[i],
                                       "membership_id", JObj(EmptyMap)), "membership_name"))
          THEN {"inactive memberships"} ELSE {})

\* Lines 107-132: the messages of the completion call.
SettingsPrompt(query, context_data) ==
    [handler |-> "settings",
     rules |-> SettingsSentences(context_data),
     context |-> LastTurn(context_data),
     query |-> query]

\* Lines 134-147, once the engine call has ended: content.strip() raises on a
\* content that is None.
SettingsReturn(outcome) ==
    IF outcome.error \/ outcome.content.none THEN SettingsOnException
    ELSE Returned(JObj([key \in {"generalResponse"} |-> JText(outcome.content.toks)]))

---------------------------------------------------------------------------
(* ExtensionHandler.process_query                                          *)

NotSureMessage == JStr("I'm not sure how to respond to that.")

\* Lines 117-121: the except clause.
ExtensionOnException == Returned(MessageOnly(GenericErrorMessage))

\* Lines 55-60 raise before the engine is called.
ExtensionPromptRaises(context_data) ==
    /\ Truthy(context_data)
    /\ \/ ~IsObj(context_data)
       \/ Truthy(Get(context_data, "lastConversation"))
             /\ ~IsObj(Get(context_data, "lastConversation"))

\* Lines 31-63 and 66-92: the messages and the declared function.
ExtensionPrompt(query, context_data) ==
    [handler |-> "extension",
     rules |-> {"navigation destinations", "navigation rules", "provide_response"},
     context |-> IF Truthy(context_data) /\ Truthy(Get(context_data, "lastConversation"))
                 THEN LastTurn(context_data) ELSE <<>>,
     query |-> query]

\* Mutant of StructuredResponse: response_message is copied only when given.
StructuredResponseNoDefault(response_data) ==
    JObj([key \in DOMAIN response_data.m \cap {"response_message"} |-> response_data.m[key]]
      @@ "goto" :> Get(response_data, "goto"))

\* Lines 102-105: the structured response; goto is response_data.get("goto").
StructuredResponse(response_data) ==
    JObj("response_message" :> GetOr(response_data, "response_message", NotSureMessage)
      @@ "goto" :> Get(response_data, "goto"))

\* Lines 110-115: the plain-text response.
TextResponse(content) ==
    MessageOnly(IF ~content.none /\ content.toks # <<>>
                THEN JText(content.toks) ELSE NotSureMessage)

\* Lines 94-121, once the engine call has ended.  Arguments that decode to
\* something other than a dict raise at .get (AttributeError); arguments
\* that do not decode fall through to the plain-text response.
ExtensionReturn(outcome) ==
    IF outcome.error THEN ExtensionOnException
    ELSE IF ~outcome.arguments.none /\ outcome.arguments.toks # <<>>
            /\ JsonDecodes(outcome.arguments.toks)
         THEN IF IsObj(JsonLoads(outcome.arguments.toks))
              THEN Returned(StructuredResponse(JsonLoads(outcome.arguments.toks)))
              ELSE ExtensionOnException
         ELSE Returned(TextResponse(outcome.content))

---------------------------------------------------------------------------
(* ChatService.process_unified_query                                       *)

\* Mutant of RouterOnException: the exception is raised again.
RouterReraises == Raised

\* Lines 57-61: the except clause of the router.
RouterOnException == Returned(MessageOnly(GenericErrorMessage))

\* Mutant of Route: the page is matched without regard to case.
RouteIgnoringCase(metadata) ==
    LET page == GetOr(metadata, "page", JStr("dashboard"))
    IN  IF page \in {JStr("settings"), JStr("Settings")} THEN "settings"
        ELSE IF page \in {JStr("extension"), JStr("EXTENSION")} THEN "extension"
        ELSE "dashboard"

\* Line 44: metadata.get("page", "dashboard"), then lines 47-55.
Route(metadata) ==
    LET page == GetOr(metadata, "page", JStr("dashboard"))
    IN  IF page = JStr("settings") THEN "settings"
        ELSE IF page = JStr("extension") THEN "extension"
        ELSE "dashboard"

\* The handler's statements before its engine call raise (and its except
\* clause returns the fallback).
HandlerPromptRaises(handler, context_data) ==
    CASE handler = "settings" -> SettingsPromptRaises(context_data)
      [] handler = "extension" -> ExtensionPromptRaises(context_data)
      [] OTHER -> DashboardPromptRaises(context_data)

HandlerOnException(handler) ==
    CASE handler = "settings" -> SettingsOnException
      [] handler = "extension" -> ExtensionOnException
      [] OTHER -> DashboardOnException

HandlerPrompt(handler, query, context_data) ==
    CASE handler = "settings" -> SettingsPrompt(query, context_data)
      [] handler = "extension" -> ExtensionPrompt(query, context_data)
      [] OTHER -> DashboardPrompt(query, context_data)

HandlerReturn(handler, outcome) ==
    CASE handler = "settings" -> SettingsReturn(outcome)
      [] handler = "extension" -> ExtensionReturn(outcome)
      [] OTHER -> DashboardReturn(outcome)

---------------------------------------------------------------------------
(* unified_chat_processor                                                  *)

MAX_QUERY_LENGTH == 500

\* A query string: its wording and its number of characters.
QueryText(s, n) == [k |-> "str", s |-> s, len |-> n]

\* len(query) is a TypeError for None, booleans and numbers.
QueryLen(query) ==
    CASE query.k = "str"  -> query.len
      [] query.k = "list" -> Len(query.items)
      [] query.k = "obj"  -> Cardinality(DOMAIN query.m)

\* Mutant of TooLong: the comparison is off by one.
TooLongAtLimit(query) == QueryLen(query) >= MAX_QUERY_LENGTH

\* Line 49.
TooLong(query) == QueryLen(query) > MAX_QUERY_LENGTH

NoAnswer == [status |-> 0, body |-> JNull]
Answer(status, body) == [status |-> status, body |-> body]

\* Lines 22-54 and 62-70: the answer of a request that is not dispatched;
\* NoAnswer when it is.  The TypeError of line 47 is caught by line 65.
Validation(body) ==
    IF ~Has(body, "query") THEN Answer(400, JNull)
    ELSE IF LenRaises(body.m["query"]) THEN Answer(500, JNull)
    ELSE IF TooLong(body.m["query"]) THEN Answer(400, JNull)
    ELSE NoAnswer

\* Lines 43-44: request.get(key, {})
ContextData(body) == GetOr(body, "contextData", JObj(EmptyMap))
Metadata(body) == GetOr(body, "metadata", JObj(EmptyMap))

\* chat_service.py lines 39-61: what a handler returns is returned; what it
\* raises is caught by the except clause.
RouterResult(result) == IF result.raised THEN RouterOnException ELSE result

\* Line 60, or lines 65-70 when process_unified_query raised.
AnswerOf(result) ==
    IF result.raised THEN Answer(500, JNull) ELSE Answer(200, result.body)

---------------------------------------------------------------------------
(* Bounded replies of the completion engine.                               *)

\* The most keys a generated top-level payload carries.
MaxTopKeys == 2
\* The most keys a generated filters object carries.
MaxFilterKeys == 2
\* Prices range over 0 .. MaxPrice.
MaxPrice == 1

\* The dicts with at most n of the keys ks, each key's value drawn from vals[key].
RECURSIVE Dicts(_, _, _)
Dicts(ks, vals, n) ==
    IF ks = {} \/ n = 0 THEN {EmptyMap}
    ELSE LET key == CHOOSE x \in ks : TRUE
         IN  Dicts(ks \ {key}, vals, n)
             \cup {(key :> v) @@ rest : v \in vals[key], rest \in Dicts(ks \ {key}, vals, n - 1)}

PriceValues ==
    {JNull, JObj(EmptyMap), JStr("cheap"),
     JObj("min" :> JNull @@ "max" :> JNull)}
    \cup {JObj("min" :> JNum(n)) : n \in 0 .. MaxPrice}
    \cup {JObj("min" :> JNull @@ "max" :> JNum(MaxPrice))}

TimeRangeValues ==
    {JNull, JStr("last week"),
     JObj("startDate" :> JNull @@ "endDate" :> JNull @@ "description" :> JStr("")),
     JObj("startDate" :> JStr("2023-01-01") @@ "endDate" :> JNull)}

NameListValues == {JList(<<>>), JList(<<JStr("Electronics")>>)}

FlagValues == {JBool(FALSE), JBool(TRUE), JStr("yes")}

FilterKeys == {"categories", "stores", "lists", "timeRange", "clearAll", "price"}

FilterValues ==
    [key \in FilterKeys |->
        CASE key = "timeRange" -> TimeRangeValues
          [] key = "price" -> PriceValues
          [] key = "clearAll" -> FlagValues
          [] key = "categories" -> NameListValues \cup {JStr("Electronics")}
          [] OTHER -> NameListValues]

FiltersValues ==
    {JNull, JStr("none"), JList(<<JStr("Electronics")>>)}
    \cup {JObj(f) : f \in Dicts(FilterKeys, FilterValues, MaxFilterKeys)}

TopKeys == {"filters", "price", "view_mode", "sort_by", "group_by", "closeTabs",
            "response_message", "generalResponse"}

TopValues ==
    [key \in TopKeys |->
        CASE key = "filters" -> FiltersValues
          [] key = "price" -> PriceValues
          [] key = "closeTabs" -> FlagValues
          [] key = "response_message" -> {JNull, JStr(""), JStr("Here are your products."), JNum(1)}
          [] key = "view_mode" -> {JNull, JStr(""), JStr("details+image")}
          [] key = "sort_by" -> {JStr(""), JStr("most-viewed")}
          [] key = "group_by" -> {JStr(""), JStr("Categories")}
          [] OTHER -> {JStr(""), JStr("It is sunny today.")}]

\* Decoded payloads: dicts, and JSON that is no object.
Payloads ==
    {JObj(d) : d \in Dicts(TopKeys, TopValues, MaxTopKeys)}
    \cup {JNull, JBool(TRUE), JNum(1), JStr("filters"), JStr("ok"),
          JList(<<>>), JList(<<JStr("filters")>>)}

\* A few payloads to put inside the wrappings below.
WrappedPayloads ==
    {JObj("response_message" :> JStr("Here are your products.")),
     JObj("filters" :> JObj("categories" :> JList(<<JStr("Electronics")>>))),
     JObj("price" :> JObj("min" :> JNum(0)) @@ "closeTabs" :> JStr("yes")),
     JList(<<>>)}

Prefixes == {<<>>, <<TokWs>>, <<TokFence>>, <<TokFence, TokWs>>, <<TokFence, TokJson>>,
             <<TokFence, TokJson, TokWs>>, <<TokWs, TokFence, TokJson, TokWs>>,
             <<TokProse>>}

Suffixes == {<<>>, <<TokWs>>, <<TokFence>>, <<TokWs, TokFence>>, <<TokWs, TokFence, TokWs>>,
             <<TokProse>>}

Replies ==
    {NoContent}
    \cup {Text(<<TokValue(p)>>) : p \in Payloads}
    \cup {Text(pre \o <<TokValue(p)>> \o post) :
             pre \in Prefixes, post \in Suffixes, p \in WrappedPayloads}
    \cup {Text(pre \o post) : pre \in Prefixes, post \in Suffixes}

---------------------------------------------------------------------------
(* Bounded requests to the unified endpoint.                               *)

\* Query lengths run up to MAX_QUERY_LENGTH + MaxOverrun.
MaxOverrun == 2
\* The most keys a generated uiState.filters carries.
MaxUiFilterKeys == 2

QueryLengths == {1} \cup ((MAX_QUERY_LENGTH - 1) .. (MAX_QUERY_LENGTH + MaxOverrun))

Wordings == {"show me electronics", "show me products over $500",
             "viewed yesterday", "what is the weather today"}

\* The values of the query field; the field may also be missing.
Queries ==
    {JNull, JNum(7), JBool(TRUE), JList(<<JStr("show"), JStr("me")>>), QueryText("", 0)}
    \cup {QueryText(w, n) : w \in {"show me electronics", "viewed yesterday"},
                            n \in QueryLengths}

Pages == {JStr("dashboard"), JStr("settings"), JStr("extension"), JStr("Settings"),
          JStr("EXTENSION"), JStr("profile"), JStr(""), JNull, JNum(1)}

\* The values of the metadata field; the field may also be missing.
Metadatas ==
    {JNull, JStr("settings"), JList(<<JStr("extension")>>), JObj(EmptyMap),
     JObj("source" :> JStr("webapp"))}
    \cup {JObj("page" :> page) : page \in Pages}

LastConversation ==
    JObj("query" :> JStr("show me shoes")
      @@ "response" :> JStr("Would you like me to add shoes or replace your filters?"))

\* The values of the contextData field; the field may also be missing.
ContextDatas ==
    {JNull, JStr("context"), JList(<<>>), JObj(EmptyMap),
     JObj("uiState" :> JObj("filters" :> JObj("categories" :> JList(<<JStr("Electronics")>>)))
       @@ "availableCategories" :> JList(<<JStr("Electronics"), JStr("Shoes")>>)
       @@ "availableLists" :> JList(<<JObj("name" :> JStr("Wishlist"))>>)),
     JObj("uiState" :> JObj("filters" :> JObj("categories" :> JList(<<>>)))
       @@ "lastConversation" :> LastConversation),
     JObj("availableLists" :> JList(<<JStr("Wishlist")>>)),
     JObj("lastConversation" :> JNull),
     JObj("profile" :> JObj("firstName" :> JStr("Ada"))
       @@ "memberships" :> JList(<<
              JObj("active" :> JBool(TRUE) @@ "tier" :> JStr("Gold")
                @@ "membership_id" :> JObj("membership_name" :> JStr("Prime"))),
              JObj("active" :> JNum(0)
                @@ "membership_id" :> JObj("membership_name" :> JStr("Club")))>>)
       @@ "lastConversation" :> LastConversation),
     JObj("creditCards" :> JObj(
              "userCards" :> JList(<<JObj("creditCardId" :> JObj("cardInfo" :>
                                     JObj("cardName" :> JStr("Sapphire"))))>>)
           @@ "availableCards" :> JList(<<JObj("cardInfo" :> JNull)>>)))}

Fields(key, values) == {key :> v : v \in values} \cup {EmptyMap}

\* The request bodies: FastAPI hands the endpoint JSON objects only.
Requests ==
    {JObj(q @@ c @@ m) : q \in Fields("query", Queries),
                         c \in Fields("contextData", ContextDatas),
                         m \in Fields("metadata", Metadatas)}

UiPriceValues ==
    {JObj(EmptyMap), JObj("min" :> JNull @@ "max" :> JNull), JStr("cheap")}
    \cup {JObj("min" :> JNum(n) @@ "max" :> JNull) : n \in 0 .. MaxPrice}
    \cup {JObj("max" :> JNum(n)) : n \in 0 .. MaxPrice}

UiFilterKeys == {"categories", "stores", "lists", "timeRange", "price"}

UiFilterValues ==
    [key \in UiFilterKeys |->
        CASE key = "timeRange" -> TimeRangeValues
          [] key = "price" -> UiPriceValues
          [] key = "categories" -> NameListValues \cup {JNum(3)}
          [] OTHER -> NameListValues]

UiStates ==
    {JNull, JObj(EmptyMap), JObj("viewMode" :> JStr("grid")),
     JObj("filters" :> JStr("all"))}
    \cup {JObj("filters" :> JObj(f) @@ "viewMode" :> JStr("grid")) :
             f \in Dicts(UiFilterKeys, UiFilterValues, MaxUiFilterKeys)}

\* Dashboard contexts: every uiState, with and without a prior turn.
DashboardContexts ==
    {JObj(ui @@ last @@ "availableCategories" :> JList(<<JStr("Electronics")>>)) :
        ui \in Fields("uiState", UiStates),
        last \in Fields("lastConversation", {LastConversation})}

\* Requests for the dashboard page.
DashboardRequests ==
    {JObj("query" :> QueryText(w, 1) @@ "contextData" :> c
          @@ "metadata" :> JObj("page" :> JStr("dashboard"))) :
        w \in Wordings, c \in DashboardContexts}

---------------------------------------------------------------------------
(* Bounded outcomes of the completion-engine call.                         *)

Clarification ==
    JObj("response_message" :>
         JStr("I notice you already have filters applied. Add or replace?"))

DashboardOutcomes ==
    {EngineError, EngineMessage(NoContent, NoContent)}
    \cup {EngineMessage(Text(toks), NoContent) : toks \in {
            <<TokValue(Clarification)>>,
            <<TokFence, TokJson, TokWs, TokValue(Clarification), TokWs, TokFence>>,
            <<TokFence, TokWs, TokValue(Clarification), TokWs, TokFence>>,
            <<TokValue(JObj("filters" :> JObj("categories" :> JList(<<JStr("Electronics")>>))
                         @@ "response_message" :> JStr("")))>>,
            <<TokValue(JObj("price" :> JObj("min" :> JNum(0))
                         @@ "filters" :> JObj("price" :> JObj("max" :> JNum(1)))))>>,
            <<TokProse>>}}

SettingsOutcomes ==
    {EngineError, EngineMessage(NoContent, NoContent),
     EngineMessage(Text(<<TokWs, TokProse, TokWs>>), NoContent),
     EngineMessage(Text(<<>>), NoContent)}

ExtensionOutcomes ==
    {EngineError, EngineMessage(NoContent, NoContent),
     EngineMessage(Text(<<TokProse, TokWs>>), NoContent),
     EngineMessage(Text(<<TokProse>>), Text(<<>>)),
     EngineMessage(Text(<<TokProse>>), Text(<<TokProse>>)),
     EngineMessage(NoContent, Text(<<TokValue(JList(<<>>))>>))}
    \cup {EngineMessage(NoContent, Text(<<TokValue(JObj(d))>>)) :
            d \in {EmptyMap,
                   "response_message" :> JStr("Opening your settings."),
                   "response_message" :> JStr("Opening your settings.") @@ "goto" :> JStr("settings"),
                   "response_message" :> JStr("Here is the checkout.") @@ "goto" :> JStr("checkout"),
                   "goto" :> JNull}}

Outcomes(handler) ==
    CASE handler = "settings" -> SettingsOutcomes
      [] handler = "extension" -> ExtensionOutcomes
      [] OTHER -> DashboardOutcomes

---------------------------------------------------------------------------
(* The bearer-token check (app/middleware/auth.py).                        *)

\* A user identifier: its text, and whether the text is 24 hexadecimal
\* digits.
UserId(text, hex24) == [text |-> text, hex24 |-> hex24]

\* The bearer credential: whether its signature verifies under
\* JWT_SECRET_KEY, whether it has expired, and the claims it carries.
Credentials(signed, expired, payload) ==
    [signed |-> signed, expired |-> expired, payload |-> payload]

\* Lines 19-23: jwt.decode raises JWTError for a bad signature and for an
\* expired token.
JwtDecodeRaises(credentials) == ~credentials.signed \/ credentials.expired

\* Line 26: payload.get("userId")
PayloadUserId(payload) ==
    IF "userId" \in DOMAIN payload THEN payload["userId"] ELSE JNull

Authenticated(user_id) == [ok |-> TRUE, status |-> 200, user_id |-> user_id]
Unauthorized == [ok |-> FALSE, status |-> 401, user_id |-> JNull]

\* Mutant of verify_token: the signature and the expiry are not checked.
verify_token_unverified(credentials) ==
    IF PayloadUserId(credentials.payload) = JNull THEN Unauthorized
    ELSE Authenticated(PayloadUserId(credentials.payload))

\* Lines 13-46: the verified user identifier, or a 401.  The HTTPException of
\* line 28 is raised inside the try block and is caught by line 41, which
\* raises a 401 again.
verify_token(credentials) ==
    IF JwtDecodeRaises(credentials) THEN Unauthorized
    ELSE IF PayloadUserId(credentials.payload) = JNull THEN Unauthorized
    ELSE Authenticated(PayloadUserId(credentials.payload))

---------------------------------------------------------------------------
(* The conversation store (app/models/chat_message.py).                    *)

\* bson's ObjectId.is_valid(user_id), for a string.
ObjectIdIsValid(user_id) == user_id.hex24

\* The two representations of a user identifier in a stored document.
ObjectId(user_id) == [rep |-> "oid", text |-> user_id.text]
Str(user_id) == [rep |-> "str", text |-> user_id.text]

\* A document of the collection.
Turn(id, userId, query, response, source, page, createdAt) ==
    [id |-> id, userId |-> userId, query |-> query, response |-> response,
     source |-> source, page |-> page, createdAt |-> createdAt]

\* Lines 35-39 of create_message: source and page, from the metadata.
SourceOf(metadata) ==
    IF Truthy(metadata) THEN GetOr(metadata, "source", JStr("webapp")) ELSE JStr("webapp")
PageOfTurn(metadata) ==
    IF Truthy(metadata) THEN GetOr(metadata, "page", JStr("dashboard")) ELSE JStr("dashboard")

\* Lines 59-60: the userId written to the collection.
StoredUserId(user_id) ==
    IF ObjectIdIsValid(user_id) THEN ObjectId(user_id) ELSE Str(user_id)

\* Lines 29-65: the document create_message inserts at time now; the store
\* gives it a fresh _id.
create_message(user_id, query_text, response_text, metadata, now) ==
    Turn(now, StoredUserId(user_id), query_text, response_text,
         SourceOf(metadata), PageOfTurn(metadata), now)

\* collection.find({"userId": key, "createdAt": {"$lt": before}})
Matching(docs, key, before) ==
    {d \in docs : d.userId = key /\ d.createdAt < before}

Newest(docs) == CHOOSE d \in docs : \A e \in docs : e.createdAt <= d.createdAt

\* .sort([("createdAt", -1)]).limit(limit).to_list(None)
RECURSIVE SortedNewestFirst(_, _)
SortedNewestFirst(docs, limit) ==
    IF docs = {} \/ limit = 0 THEN <<>>
    ELSE <<Newest(docs)>> \o SortedNewestFirst(docs \ {Newest(docs)}, limit - 1)

\* Lines 84-85 and 89-90.
Find(docs, key, before, limit) == SortedNewestFirst(Matching(docs, key, before), limit)

\* list(reversed(messages))
Reversed(q) == [i \in 1 .. Len(q) |-> q[Len(q) + 1 - i]]

\* Lines 67-96: an identifier that is no ObjectId gives [] before the
\* collection is touched; an exception of the collection gives [] as well;
\* the string form is looked up only when the ObjectId form found nothing.
get_user_conversations(docs, user_id, limit, before, raises) ==
    IF ~ObjectIdIsValid(user_id) THEN <<>>
    ELSE IF raises THEN <<>>
    ELSE IF Len(Find(docs, ObjectId(user_id), before, limit)) = 0
         THEN Reversed(Find(docs, Str(user_id), before, limit))
         ELSE Reversed(Find(docs, ObjectId(user_id), before, limit))

\* The collection operations get_user_conversations performs.
FindOperations(docs, user_id, limit, before, raises) ==
    IF ~ObjectIdIsValid(user_id) THEN {}
    ELSE IF raises \/ Len(Find(docs, ObjectId(user_id), before, limit)) # 0
         THEN {[op |-> "find", userId |-> ObjectId(user_id)]}
         ELSE {[op |-> "find", userId |-> ObjectId(user_id)],
               [op |-> "find", userId |-> Str(user_id)]}

\* Lines 98-105: the documents delete_many removes.
Deleted(docs, user_id) ==
    IF ObjectIdIsValid(user_id) THEN {d \in docs : d.userId = ObjectId(user_id)} ELSE {}

\* Lines 98-105: the returned count.
delete_user_conversations(docs, user_id) == Cardinality(Deleted(docs, user_id))

\* Lines 107-113.
count_user_messages(docs, user_id) ==
    IF ObjectIdIsValid(user_id)
    THEN Cardinality({d \in docs : d.userId = ObjectId(user_id)})
    ELSE 0

\* Mutant of insert_one: an upsert keyed by the user, which replaces the
\* user's earlier document.
replace_one(docs, doc) == {d \in docs : d.userId # doc.userId} \cup {doc}

\* Line 62 of create_message: collection.insert_one(doc_dict) adds the
\* document and touches no other.
insert_one(docs, doc) == docs \cup {doc}

---------------------------------------------------------------------------
(* The answers of the history endpoints (app/routes/chat_conversations.py). *)

HNoAnswer == [status |-> 0, message |-> "", userId |-> "", data |-> <<>>, count |-> 0]

HAnswer(status, message, userId, data, count) ==
    [status |-> status, message |-> message, userId |-> userId,
     data |-> data, count |-> count]

HError(status, message) == HAnswer(status, message, "", <<>>, 0)

\* Lines 52-63 and 91-103: userId as a string, in the answer.
Formatted(doc) == [doc EXCEPT !.userId = doc.userId.text]

FormattedAll(q) == [i \in DOMAIN q |-> Formatted(q[i])]

\* Line 75: Query(50, ge=1, le=100)
DefaultLimit == 50
MinLimit == 1
MaxLimit == 100

\* The limit parameter: given or not.
LimitOf(hreq) == IF hreq.limit.given THEN hreq.limit.n ELSE DefaultLimit

LimitInvalid(hreq) ==
    hreq.op = "get" /\ (LimitOf(hreq) < MinLimit \/ LimitOf(hreq) > MaxLimit)

\* ConversationRequest: query and response are required strings.
BodyInvalid(hreq) == hreq.op = "save" /\ ~hreq.body.valid

\* Line 70 of chat_message.py: before defaults to now.
BeforeOf(hreq, now) == IF hreq.before.given THEN hreq.before.at ELSE now

---------------------------------------------------------------------------
(* Bounded requests to the history endpoints.                              *)

\* The saves of one run.
MaxTurns == 3

UserA == UserId("64b7f0c2a1d3e4f5a6b7c8d9", TRUE)
UserB == UserId("507f1f77bcf86cd799439011", TRUE)
UserO == UserId("user-42", FALSE)

Users == {UserA, UserB, UserO}

\* The claims of a token: a userId, a null userId, or none.
TokenPayloads ==
    {"userId" :> u : u \in Users} \cup {"userId" :> JNull, "sub" :> UserA}

\* Verifying tokens with every payload, a forged token and an expired one.
CredentialValues ==
    {Credentials(TRUE, FALSE, p) : p \in TokenPayloads}
    \cup {Credentials(FALSE, FALSE, "userId" :> UserA),
          Credentials(TRUE, TRUE, "userId" :> UserA)}

NoLimit == [given |-> FALSE, n |-> DefaultLimit]
Limits ==
    {NoLimit}
    \cup {[given |-> TRUE, n |-> n] :
             n \in {MinLimit - 1, MinLimit, MinLimit + 1, MaxLimit + 1}}

NoBefore == [given |-> FALSE, at |-> MaxTurns]
Befores == {NoBefore} \cup {[given |-> TRUE, at |-> t] : t \in {2, MaxTurns}}

NoBody == [valid |-> FALSE, metadata |-> JNull]
Bodies ==
    {NoBody, [valid |-> TRUE, metadata |-> JNull],
     [valid |-> TRUE,
      metadata |-> JObj("source" :> JStr("extension") @@ "page" :> JStr("settings"))]}

\* A user identifier the client puts in the body or the query string.
ClaimedUsers == {JNull, UserB}

HRequest(op, credentials, limit, before, body, claimed) ==
    [op |-> op, credentials |-> credentials, limit |-> limit, before |-> before,
     body |-> body, claimed |-> claimed]

HistoryRequests ==
    {HRequest(op, c, NoLimit, NoBefore, NoBody, u) :
        op \in {"status", "delete"}, c \in CredentialValues, u \in ClaimedUsers}
    \cup {HRequest("save", c, NoLimit, NoBefore, b, u) :
        c \in CredentialValues, b \in Bodies, u \in ClaimedUsers}
    \cup {HRequest("get", c, l, b, NoBody, JNull) :
        c \in CredentialValues, l \in Limits, b \in Befores}
    \cup {HRequest("get", c, NoLimit, NoBefore, NoBody, UserB) : c \in CredentialValues}

SavedQuery == JStr("show me shoes")
SavedResponse == JStr("Here are the shoes.")

\* The collection when the service starts: empty, or holding a turn that an
\* earlier writer stored under the string form of a user's identifier.
InitialStores ==
    {{}, {Turn(0, Str(UserA), SavedQuery, SavedResponse,
               JStr("webapp"), JStr("dashboard"), 0)}}

NoHRequest == HRequest("none", Credentials(FALSE, FALSE, EmptyMap), NoLimit, NoBefore, NoBody, JNull)

HistoryIdle ==
    /\ store = {}
    /\ clock = 1
    /\ hrequest = NoHRequest
    /\ hpc = "idle"
    /\ storeOps = {}
    /\ failed = FALSE
    /\ hhttp = HNoAnswer
    /\ cleared = ""

---------------------------------------------------------------------------
(* Requests in flight together.  run.py starts one uvicorn process, so     *)
(* every coroutine runs on one event loop: a coroutine runs until it       *)
(* awaits something that suspends it, and only then can another run.       *)

\* The most requests in flight together.
MaxInFlight == 2

Slots == 1 .. MaxInFlight

\* chat.py line 13, chat_service.py lines 14-25 and the handlers' __init__:
\* the attributes of the one ChatService and of its three handlers.
InitialService ==
    [current_date |-> 1, openai_client |-> "OpenAI",
     handlers |-> {"dashboard", "settings", "extension"},
     handler_dates |-> [h \in {"dashboard", "settings", "extension"} |-> 1]]

\* Mutant of ServiceAfterQuery: the router keeps the date of the query it
\* handled last.
ServiceRemembersQuery(svc, now) == [svc EXCEPT !.current_date = now + 1]

\* chat_service.py lines 27-61 and the handlers' process_query: no statement
\* assigns an attribute of self.
ServiceAfterQuery(svc, now) == svc

NoUser == UserId("", FALSE)
NoMessage == Turn(0, Str(NoUser), JNull, JNull, JNull, JNull, 0)

\* A request in flight: where it is (free, arrived, engine, insert, done),
\* what it asks for, and what has been computed for it so far.
Slot(at, kind, body, user, p, c, answer, message) ==
    [pc |-> at, kind |-> kind, body |-> body, user |-> user, prompt |-> p,
     completion |-> c, answer |-> answer, message |-> message]

FreeSlot ==
    Slot("free", "none", JObj(EmptyMap), NoUser, NoPrompt,
         EngineMessage(NoContent, NoContent), NoAnswer, NoMessage)

Arrived(kind, body, user) ==
    [FreeSlot EXCEPT !.pc = "arrived", !.kind = kind, !.body = body, !.user = user]

\* Bodies of POST /unified: a dashboard query with an active filter, an
\* extension query, and a body without a query.
ConcurrentBodies ==
    {JObj("query" :> QueryText("show me electronics", 19)
       @@ "contextData" :> JObj("uiState" :> JObj("filters" :>
              JObj("categories" :> JList(<<JStr("Electronics")>>))))),
     JObj("query" :> QueryText("viewed yesterday", 16)
       @@ "metadata" :> JObj("page" :> JStr("extension"))),
     JObj("metadata" :> JObj("page" :> JStr("settings")))}

\* Authenticated bodies of POST /conversations.
ConcurrentSaves ==
    {Arrived("save", JObj("metadata" :> JNull), UserA),
     Arrived("save", JObj("metadata" :> JObj("source" :> JStr("extension")
                                          @@ "page" :> JStr("settings"))), UserO)}

ConcurrentRequests ==
    {Arrived("unified", body, NoUser) : body \in ConcurrentBodies}
    \cup {Arrived("status", JObj(EmptyMap), NoUser)}
    \cup ConcurrentSaves

\* What the engine gives back to a request in flight: an error, or a reply
\* the handler accepts.
ConcurrentOutcomes(handler) ==
    {EngineError,
     IF handler = "extension"
     THEN EngineMessage(Text(<<TokProse, TokWs>>), NoContent)
     ELSE EngineMessage(Text(<<TokValue(Clarification)>>), NoContent)}

\* The most saves of one run of requests in flight.
MaxSaves == 2

ConcIdle ==
    /\ slots = [i \in Slots |-> FreeSlot]
    /\ loop = 0
    /\ service = InitialService
    /\ inserted = 0

---------------------------------------------------------------------------
(* The unified endpoint handling one request after another.                *)

NoRequest == JObj(EmptyMap)
NoOutcome == EngineMessage(NoContent, NoContent)
Pending == [k |-> "pending"]

EndpointIdle ==
    /\ request = NoRequest
    /\ pc = "idle"
    /\ dispatched = FALSE
    /\ invoked = {}
    /\ prompt = NoPrompt
    /\ completion = NoOutcome
    /\ http = NoAnswer

NormIdle ==
    /\ llm_response = NoContent
    /\ parsed = Pending
    /\ reparsed = Pending

Init == EndpointIdle /\ NormIdle /\ HistoryIdle /\ ConcIdle

\* A request arrives at POST /unified.
Receive(bodies) ==
    /\ pc = "idle"
    /\ request' \in bodies
    /\ pc' = "validate"
    /\ UNCHANGED <<dispatched, invoked, prompt, completion, http>>
    /\ UNCHANGED normVars
    /\ UNCHANGED historyVars
    /\ UNCHANGED concVars

\* chat.py lines 22-58: the request is rejected, or process_unified_query is
\* called.
Validate ==
    /\ pc = "validate"
    /\ IF Validation(request) = NoAnswer
       THEN pc' = "dispatch" /\ dispatched' = TRUE /\ http' = http
       ELSE pc' = "done" /\ dispatched' = dispatched /\ http' = Validation(request)
    /\ UNCHANGED <<request, invoked, prompt, completion>>
    /\ UNCHANGED normVars
    /\ UNCHANGED historyVars
    /\ UNCHANGED concVars

\* chat_service.py lines 39-55 and the chosen handler's process_query up to
\* its call of the completion engine.
Dispatch ==
    /\ pc = "dispatch"
    /\ IF ~IsObj(Metadata(request))
       THEN /\ invoked' = invoked
            /\ prompt' = prompt
            /\ pc' = "done"
            /\ http' = AnswerOf(RouterOnException)
       ELSE LET handler == Route(Metadata(request))
            IN  /\ invoked' = invoked \cup {handler}
                /\ IF HandlerPromptRaises(handler, ContextData(request))
                   THEN /\ prompt' = prompt
                        /\ pc' = "done"
                        /\ http' = AnswerOf(RouterResult(HandlerOnException(handler)))
                   ELSE /\ prompt' = HandlerPrompt(handler, request.m["query"],
                                                   ContextData(request))
                        /\ pc' = "engine"
                        /\ http' = http
    /\ UNCHANGED <<request, dispatched, completion>>
    /\ UNCHANGED normVars
    /\ UNCHANGED historyVars
    /\ UNCHANGED concVars

\* The completion engine call ends, and the handler, the router and the
\* endpoint return.
EngineReturns ==
    /\ pc = "engine"
    /\ \E o \in Outcomes(prompt.handler) :
          /\ completion' = o
          /\ http' = AnswerOf(RouterResult(HandlerReturn(prompt.handler, o)))
    /\ pc' = "done"
    /\ UNCHANGED <<request, dispatched, invoked, prompt>>
    /\ UNCHANGED normVars
    /\ UNCHANGED historyVars
    /\ UNCHANGED concVars

\* The answer is sent, and the endpoint is ready for the next request.
Respond ==
    /\ pc = "done"
    /\ request' = NoRequest
    /\ pc' = "idle"
    /\ dispatched' = FALSE
    /\ invoked' = {}
    /\ prompt' = NoPrompt
    /\ completion' = NoOutcome
    /\ http' = NoAnswer
    /\ UNCHANGED normVars
    /\ UNCHANGED historyVars
    /\ UNCHANGED concVars

Next == Receive(Requests) \/ Validate \/ Dispatch \/ EngineReturns \/ Respond

Spec == Init /\ [][Next]_vars

\* The dashboard handler over every generated dashboard context.
NextDashboard ==
    Receive(DashboardRequests) \/ Validate \/ Dispatch \/ EngineReturns \/ Respond

SpecDashboard == Init /\ [][NextDashboard]_vars

---------------------------------------------------------------------------
(* The normalizer applied to a reply, and again to its own serialized      *)
(* output.                                                                 *)

NormInit ==
    /\ EndpointIdle
    /\ HistoryIdle
    /\ ConcIdle
    /\ llm_response \in Replies
    /\ parsed = Pending
    /\ reparsed = Pending

Normalize ==
    /\ parsed = Pending
    /\ parsed' = _parse_llm_response(llm_response)
    /\ UNCHANGED <<llm_response, reparsed>>
    /\ UNCHANGED endpointVars
    /\ UNCHANGED historyVars
    /\ UNCHANGED concVars

Renormalize ==
    /\ parsed # Pending
    /\ reparsed = Pending
    /\ reparsed' = _parse_llm_response(JsonDumps(parsed))
    /\ UNCHANGED <<llm_response, parsed>>
    /\ UNCHANGED endpointVars
    /\ UNCHANGED historyVars
    /\ UNCHANGED concVars

NormNext == Normalize \/ Renormalize

SpecNorm == NormInit /\ [][NormNext]_vars

---------------------------------------------------------------------------
(* Two turns of a dashboard conversation: a reply is normalized, and the   *)
(* filters of the response come back as uiState.filters of the next        *)
(* request.                                                                *)

\* Replies that carry filters, or a price at the root.
TurnReplies ==
    {Text(<<TokValue(JObj("filters" :> f
                       @@ "response_message" :> JStr("Here are your products.")))>>) :
        f \in FiltersValues}
    \cup {Text(<<TokValue(JObj("price" :> p))>>) : p \in PriceValues}

TurnsInit ==
    /\ EndpointIdle
    /\ HistoryIdle
    /\ ConcIdle
    /\ llm_response \in TurnReplies
    /\ parsed = Pending
    /\ reparsed = Pending

\* The client applies the filters of the response and sends the next query
\* with them as uiState.filters and with the turn as lastConversation.
NextTurnRequest(response) ==
    JObj("query" :> QueryText("show me electronics", 1)
      @@ "contextData" :> JObj(
             "uiState" :> JObj("filters" :> response.m["filters"])
          @@ "lastConversation" :> JObj("query" :> JStr("show me shoes")
                                     @@ "response" :> response.m["response_message"]))
      @@ "metadata" :> JObj("page" :> JStr("dashboard")))

ReceiveNextTurn ==
    /\ pc = "idle"
    /\ parsed # Pending
    /\ Has(parsed, "filters")
    /\ request' = NextTurnRequest(parsed)
    /\ pc' = "validate"
    /\ UNCHANGED <<dispatched, invoked, prompt, completion, http>>
    /\ UNCHANGED normVars
    /\ UNCHANGED historyVars
    /\ UNCHANGED concVars

TurnsNext ==
    Normalize \/ ReceiveNextTurn \/ Validate \/ Dispatch \/ EngineReturns \/ Respond

SpecTurns == TurnsInit /\ [][TurnsNext]_vars

---------------------------------------------------------------------------
(* The history endpoints handling one request after another, over a store  *)
(* whose documents expire.                                                 *)

HistoryInit ==
    /\ EndpointIdle
    /\ NormIdle
    /\ ConcIdle
    /\ store \in InitialStores
    /\ clock = 1
    /\ hrequest = NoHRequest
    /\ hpc = "idle"
    /\ storeOps = {}
    /\ failed = FALSE
    /\ hhttp = HNoAnswer
    /\ cleared = ""

\* A request arrives at a history endpoint; the run makes MaxTurns saves at
\* most.
HReceive ==
    /\ hpc = "idle"
    /\ hrequest' \in HistoryRequests
    /\ hrequest'.op = "save" => clock <= MaxTurns
    /\ hpc' = "auth"
    /\ UNCHANGED <<store, clock, storeOps, failed, hhttp, cleared>>
    /\ UNCHANGED <<endpointVars, normVars, concVars>>

\* Depends(verify_token), then FastAPI's validation of the limit and of the
\* body: a 401, a 422, or the endpoint's function is called.
Authenticate ==
    /\ hpc = "auth"
    /\ IF ~verify_token(hrequest.credentials).ok
       THEN /\ hhttp' = HError(verify_token(hrequest.credentials).status,
                               "Invalid authentication token")
            /\ hpc' = "done"
       ELSE IF LimitInvalid(hrequest) \/ BodyInvalid(hrequest)
            THEN /\ hhttp' = HError(422, "Unprocessable Entity")
                 /\ hpc' = "done"
            ELSE /\ hhttp' = hhttp
                 /\ hpc' = "store"
    /\ UNCHANGED <<store, clock, hrequest, storeOps, failed, cleared>>
    /\ UNCHANGED <<endpointVars, normVars, concVars>>

\* The user identifier the endpoint's function is given.
user_id == verify_token(hrequest.credentials).user_id

\* chat_conversations.py lines 24-38.
status ==
    /\ hpc = "store"
    /\ hrequest.op = "status"
    /\ \E raises \in BOOLEAN :
          /\ failed' = (raises /\ ObjectIdIsValid(user_id))
          /\ hhttp' = IF raises /\ ObjectIdIsValid(user_id)
                      THEN HError(500, "Failed to check status")
                      ELSE HAnswer(200, "Chat history API is working correctly",
                                   user_id.text, <<>>, count_user_messages(store, user_id))
    /\ storeOps' = IF ObjectIdIsValid(user_id)
                   THEN {[op |-> "count", userId |-> ObjectId(user_id)]} ELSE {}
    /\ hpc' = "done"
    /\ UNCHANGED <<store, clock, hrequest, cleared>>
    /\ UNCHANGED <<endpointVars, normVars, concVars>>

\* chat_conversations.py lines 40-71.
save_conversation ==
    /\ hpc = "store"
    /\ hrequest.op = "save"
    /\ LET message == create_message(user_id, SavedQuery, SavedResponse,
                                     hrequest.body.metadata, clock)
       IN  \E raises \in BOOLEAN :
              /\ failed' = raises
              /\ IF raises
                 THEN /\ hhttp' = HError(500, "Failed to save chat conversation")
                      /\ UNCHANGED <<store, clock, cleared>>
                 ELSE /\ hhttp' = HAnswer(200, "Chat conversation saved successfully",
                                          "", <<Formatted(message)>>, 0)
                      /\ store' = insert_one(store, message)
                      /\ clock' = clock + 1
                      /\ cleared' = IF cleared = user_id.text THEN "" ELSE cleared
    /\ storeOps' = {[op |-> "insert", userId |-> StoredUserId(user_id)]}
    /\ hpc' = "done"
    /\ UNCHANGED hrequest
    /\ UNCHANGED <<endpointVars, normVars, concVars>>

\* chat_conversations.py lines 73-112.
get_conversations ==
    /\ hpc = "store"
    /\ hrequest.op = "get"
    /\ \E raises \in BOOLEAN :
          /\ failed' = (raises /\ ObjectIdIsValid(user_id))
          /\ storeOps' = FindOperations(store, user_id, LimitOf(hrequest),
                                        BeforeOf(hrequest, clock), raises)
          /\ hhttp' = HAnswer(200, "Chat conversations retrieved successfully", "",
                              FormattedAll(get_user_conversations(
                                  store, user_id, LimitOf(hrequest),
                                  BeforeOf(hrequest, clock), raises)),
                              0)
    /\ hpc' = "done"
    /\ UNCHANGED <<store, clock, hrequest, cleared>>
    /\ UNCHANGED <<endpointVars, normVars, concVars>>

\* chat_conversations.py lines 114-125.
delete_conversations ==
    /\ hpc = "store"
    /\ hrequest.op = "delete"
    /\ \E raises \in BOOLEAN :
          /\ failed' = (raises /\ ObjectIdIsValid(user_id))
          /\ IF raises /\ ObjectIdIsValid(user_id)
             THEN /\ hhttp' = HError(500, "Failed to clear chat history")
                  /\ UNCHANGED <<store, cleared>>
             ELSE /\ hhttp' = HAnswer(200, "Chat history cleared successfully", "", <<>>,
                                      delete_user_conversations(store, user_id))
                  /\ store' = store \ Deleted(store, user_id)
                  /\ cleared' = user_id.text
    /\ storeOps' = IF ObjectIdIsValid(user_id)
                   THEN {[op |-> "delete", userId |-> ObjectId(user_id)]} ELSE {}
    /\ hpc' = "done"
    /\ UNCHANGED <<clock, hrequest>>
    /\ UNCHANGED <<endpointVars, normVars, concVars>>

\* The answer is sent.
HRespond ==
    /\ hpc = "done"
    /\ hrequest' = NoHRequest
    /\ hpc' = "idle"
    /\ storeOps' = {}
    /\ failed' = FALSE
    /\ hhttp' = HNoAnswer
    /\ UNCHANGED <<store, clock, cleared>>
    /\ UNCHANGED <<endpointVars, normVars, concVars>>

Oldest(docs) == CHOOSE d \in docs : \A e \in docs : d.createdAt <= e.createdAt

\* chat_message.py line 25: the TTL index removes the oldest document.  A
\* request reads or writes the collection in one step, so expiry between
\* requests covers expiry during one.
Expire ==
    /\ hpc = "idle"
    /\ store # {}
    /\ store' = store \ {Oldest(store)}
    /\ UNCHANGED <<clock, hrequest, hpc, storeOps, failed, hhttp, cleared>>
    /\ UNCHANGED <<endpointVars, normVars, concVars>>

HistoryNext ==
    \/ HReceive
    \/ Authenticate
    \/ status
    \/ save_conversation
    \/ get_conversations
    \/ delete_conversations
    \/ HRespond
    \/ Expire

SpecHistory == HistoryInit /\ [][HistoryNext]_vars

---------------------------------------------------------------------------
(* Requests handled together on the one event loop.                        *)

ConcurrentInit == Init

SavesInFlight == Cardinality({i \in Slots : slots[i].kind = "save"})

\* A connection is accepted; the request waits for the event loop.  Saves
\* are bounded by MaxSaves.
Arrive(i) ==
    /\ slots[i].pc = "free"
    /\ \E r \in ConcurrentRequests :
          /\ r.kind = "save" => inserted + SavesInFlight < MaxSaves
          /\ slots' = [slots EXCEPT ![i] = r]
    /\ UNCHANGED <<loop, service, inserted>>
    /\ UNCHANGED <<endpointVars, normVars, historyVars>>

\* chat.py lines 16-58 and chat_service.py lines 27-55, up to the handler's
\* client.chat.completions.create(...): a call of the synchronous OpenAI
\* client, which returns only once the engine has answered.  Nothing is
\* awaited in between, so the coroutine keeps the event loop.
UnifiedStart(i) ==
    /\ slots[i].pc = "arrived"
    /\ slots[i].kind = "unified"
    /\ loop = 0
    /\ LET body == slots[i].body
           handler == Route(Metadata(body))
           answered(answer) == [slots EXCEPT ![i].pc = "done", ![i].answer = answer]
       IN  IF Validation(body) # NoAnswer
           THEN /\ slots' = answered(Validation(body))
                /\ UNCHANGED <<loop, service>>
           ELSE /\ service' = ServiceAfterQuery(service, clock)
                /\ IF ~IsObj(Metadata(body))
                   THEN slots' = answered(AnswerOf(RouterOnException)) /\ loop' = loop
                   ELSE IF HandlerPromptRaises(handler, ContextData(body))
                   THEN /\ slots' = answered(AnswerOf(RouterResult(HandlerOnException(handler))))
                        /\ loop' = loop
                   ELSE /\ slots' = [slots EXCEPT
                               ![i].pc = "engine",
                               ![i].prompt = HandlerPrompt(handler, body.m["query"],
                                                           ContextData(body))]
                        /\ loop' = i
    /\ UNCHANGED inserted
    /\ UNCHANGED <<endpointVars, normVars, historyVars>>

\* The engine call returns into the handler, which returns through the
\* router to the endpoint; the coroutine ends and the loop is free again.
UnifiedEngineReturns(i) ==
    /\ slots[i].pc = "engine"
    /\ loop = i
    /\ \E o \in ConcurrentOutcomes(slots[i].prompt.handler) :
          slots' = [slots EXCEPT
                      ![i].pc = "done",
                      ![i].completion = o,
                      ![i].answer = AnswerOf(RouterResult(
                                        HandlerReturn(slots[i].prompt.handler, o)))]
    /\ loop' = 0
    /\ UNCHANGED <<service, inserted>>
    /\ UNCHANGED <<endpointVars, normVars, historyVars>>

\* chat.py lines 72-88: GET /status of the chat router.
check_status(i) ==
    /\ slots[i].pc = "arrived"
    /\ slots[i].kind = "status"
    /\ loop = 0
    /\ slots' = [slots EXCEPT ![i].pc = "done",
                              ![i].answer = Answer(200, JObj("status" :> JStr("ok")))]
    /\ UNCHANGED <<loop, service, inserted>>
    /\ UNCHANGED <<endpointVars, normVars, historyVars>>

\* chat_conversations.py lines 40-49 and chat_message.py lines 29-61, for a
\* verified user: the document is built from datetime.now(), and the
\* coroutine is suspended in await collection.insert_one(doc_dict).
SaveStart(i) ==
    /\ slots[i].pc = "arrived"
    /\ slots[i].kind = "save"
    /\ loop = 0
    /\ slots' = [slots EXCEPT
                   ![i].pc = "insert",
                   ![i].message = create_message(slots[i].user, SavedQuery, SavedResponse,
                                                 slots[i].body.m["metadata"], clock)]
    /\ UNCHANGED <<loop, service, inserted>>
    /\ UNCHANGED <<endpointVars, normVars, historyVars>>

\* chat_message.py lines 62-65 and chat_conversations.py lines 51-71: the
\* insert ends, with a fresh _id or with an exception, and the coroutine
\* resumes.
SaveInsert(i) ==
    /\ slots[i].pc = "insert"
    /\ loop = 0
    /\ \E raises \in BOOLEAN :
          IF raises
          THEN /\ slots' = [slots EXCEPT
                              ![i].pc = "done",
                              ![i].answer = HError(500, "Failed to save chat conversation")]
               /\ UNCHANGED <<store, clock, inserted>>
          ELSE LET message == [slots[i].message EXCEPT !.id = inserted + 1]
               IN  /\ store' = insert_one(store, message)
                   /\ inserted' = inserted + 1
                   /\ clock' = clock + 1
                   /\ slots' = [slots EXCEPT
                                  ![i].pc = "done",
                                  ![i].message = message,
                                  ![i].answer = HAnswer(200, "Chat conversation saved successfully",
                                                        "", <<Formatted(message)>>, 0)]
    /\ UNCHANGED <<loop, service>>
    /\ UNCHANGED <<hrequest, hpc, storeOps, failed, hhttp, cleared>>
    /\ UNCHANGED <<endpointVars, normVars>>

\* The answer is sent and the connection is closed.
SlotRespond(i) ==
    /\ slots[i].pc = "done"
    /\ loop = 0
    /\ slots' = [slots EXCEPT ![i] = FreeSlot]
    /\ UNCHANGED <<loop, service, inserted>>
    /\ UNCHANGED <<endpointVars, normVars, historyVars>>

ConcurrentNext ==
    \E i \in Slots :
        \/ Arrive(i)
        \/ UnifiedStart(i)
        \/ UnifiedEngineReturns(i)
        \/ check_status(i)
        \/ SaveStart(i)
        \/ SaveInsert(i)
        \/ SlotRespond(i)

SpecConcurrent == ConcurrentInit /\ [][ConcurrentNext]_vars

---------------------------------------------------------------------------
(* Properties of the unified endpoint and the router.                      *)

Answered == pc = "done"

HasSizedQuery(body) == Has(body, "query") /\ body.m["query"].k \in {"str", "list", "obj"}

\* C1: a request whose query is longer than MAX_QUERY_LENGTH is answered
\* 400 with no handler and no engine call; a query of at most
\* MAX_QUERY_LENGTH is dispatched to the router.
C1_LengthValidatedBeforeDispatch ==
    (pc \in {"dispatch", "engine", "done"} /\ HasSizedQuery(request)) =>
        IF QueryLen(request.m["query"]) > MAX_QUERY_LENGTH
        THEN /\ http.status = 400
             /\ ~dispatched
             /\ invoked = {}
             /\ prompt = NoPrompt
        ELSE dispatched

C1_Witness ==
    /\ Answered
    /\ HasSizedQuery(request)
    /\ QueryLen(request.m["query"]) = MAX_QUERY_LENGTH + 1
    /\ http.status = 400

Malformed(body) == ~Has(body, "query") \/ body.m["query"].k # "str"

\* C2: a request whose query is missing or is no string is answered with a
\* 4xx status, never a 5xx, and reaches no handler.
C2_MalformedRejected4xx ==
    (Answered /\ Malformed(request)) =>
        /\ http.status \in 400 .. 499
        /\ ~dispatched
        /\ invoked = {}

PageOf(body) ==
    IF Has(body, "metadata") /\ Has(body.m["metadata"], "page")
    THEN body.m["metadata"].m["page"] ELSE JNull

\* C3: with a metadata object (or none), page "settings" invokes only the
\* settings handler, page "extension" only the extension handler, and any
\* other or absent page only the dashboard handler.
C3_RouteByExactPage ==
    (dispatched /\ pc \in {"engine", "done"}
        /\ (Has(request, "metadata") => IsObj(request.m["metadata"]))) =>
        invoked = {IF PageOf(request) = JStr("settings") THEN "settings"
                   ELSE IF PageOf(request) = JStr("extension") THEN "extension"
                   ELSE "dashboard"}

C3_Witness ==
    /\ pc = "engine"
    /\ PageOf(request) = JStr("Settings")
    /\ invoked = {"dashboard"}

RouterFailed(body) == Has(body, "metadata") /\ ~IsObj(body.m["metadata"])

\* C4: process_unified_query returns a response map for every input and
\* every engine outcome; an exception that reaches the router gives the map
\* with only the generic response_message.
C4_RouterNeverRaises ==
    (dispatched /\ Answered) =>
        /\ http.status = 200
        /\ IsObj(http.body)
        /\ RouterFailed(request) => http.body = MessageOnly(GenericErrorMessage)

C4_Witness ==
    /\ dispatched
    /\ Answered
    /\ Has(request, "metadata")
    /\ request.m["metadata"] = JNull
    /\ Has(request, "contextData")
    /\ request.m["contextData"] = JNull
    /\ http = Answer(200, MessageOnly(GenericErrorMessage))

\* C5 as stated: every response of process_unified_query has the key
\* response_message.
C5_ResponseMessageAlways ==
    (dispatched /\ Answered) => IsObj(http.body) /\ Has(http.body, "response_message")

\* C5 amended: the responses of the dashboard handler, of the extension
\* handler and of the router's except clause have the key response_message;
\* the settings handler's responses have the single key generalResponse.
C5_ResponseMessageUnlessSettings ==
    (dispatched /\ Answered) =>
        /\ IsObj(http.body)
        /\ IF invoked = {"settings"}
           THEN DOMAIN http.body.m = {"generalResponse"}
           ELSE Has(http.body, "response_message")

C5_Witness ==
    /\ Answered
    /\ invoked = {"extension"}
    /\ ~completion.error
    /\ ~completion.arguments.none
    /\ DOMAIN http.body.m = {"response_message", "goto"}
    /\ http.body.m["response_message"] = NotSureMessage

---------------------------------------------------------------------------
(* Properties of the dashboard handler's context block and prompt.         *)

PromptBuilt == pc \in {"engine", "done"} /\ prompt.handler = "dashboard"

Directive == Part("ALL FILTERS HAVE BEEN MANUALLY CLEARED", JNull)

DirectiveIn(block) == \E i \in DOMAIN block : block[i] = Directive

UiFilters(body) == ContextData(body).m["uiState"].m["filters"]

HasFiltersObject(body) ==
    /\ Has(ContextData(body), "uiState")
    /\ IsObj(ContextData(body).m["uiState"])
    /\ Has(ContextData(body).m["uiState"], "filters")
    /\ IsObj(UiFilters(body))

Absent(d, key) == ~Has(d, key) \/ d.m[key] = JNull

\* The emptiness the data model gives: an empty collection, an absent or
\* all-empty range, a price with neither min nor max.
FieldEmpty(filters, key) ==
    \/ Absent(filters, key)
    \/ CASE key = "price" ->
                /\ Absent(filters.m[key], "min")
                /\ Absent(filters.m[key], "max")
         [] key = "timeRange" ->
                \A x \in DOMAIN filters.m[key].m : ~Truthy(filters.m[key].m[x])
         [] OTHER -> filters.m[key] = JList(<<>>)

AllFieldsEmpty(filters) == \A key \in UiFilterKeys : FieldEmpty(filters, key)

\* C9: the context block has the filter-clear directive exactly when the UI
\* state has a filters object whose every field is empty.
C9_DirectiveIffAllEmpty ==
    PromptBuilt =>
        (DirectiveIn(prompt.context)
            <=> (HasFiltersObject(request) /\ AllFieldsEmpty(UiFilters(request))))

PriceOrTimeWordings == {"show me products over $500", "viewed yesterday"}

\* C10: with has_existing_filters true and a price or time keyword in the
\* query, the prompt built for the engine states the clarification-first
\* rules, before any reply of the engine.
C10_ClarificationInPrompt ==
    (PromptBuilt
        /\ has_existing_filters(ContextData(request))
        /\ request.m["query"].s \in PriceOrTimeWordings) =>
        /\ "ALWAYS ASK FOR CLARIFICATION WHEN EXISTING FILTERS ARE APPLIED" \in prompt.rules
        /\ "PRICE AND TIME FILTERS MUST TRIGGER CLARIFICATION" \in prompt.rules
        /\ prompt.query = request.m["query"]

C10_Witness ==
    /\ pc = "engine"
    /\ prompt.handler = "dashboard"
    /\ completion = NoOutcome
    /\ has_existing_filters(ContextData(request))
    /\ request.m["query"].s = "show me products over $500"
    /\ "PRICE AND TIME FILTERS MUST TRIGGER CLARIFICATION" \in prompt.rules

---------------------------------------------------------------------------
(* Properties of the normalizer.                                           *)

IsNonEmptyString(v) == v.k = "str" /\ v.s # ""

\* C6: every output of _parse_llm_response is a map whose response_message
\* is a non-empty string, whatever the reply was.
C6_MessageNonEmptyString ==
    parsed # Pending =>
        /\ IsObj(parsed)
        /\ Has(parsed, "response_message")
        /\ IsNonEmptyString(parsed.m["response_message"])

\* C7: normalizing the serialized output of the normalizer gives that
\* output again.
C7_Idempotent == reparsed # Pending => reparsed = parsed

C7_Witness ==
    /\ reparsed # Pending
    /\ llm_response.toks # <<>>
    /\ llm_response.toks[1].t = "value"
    /\ IsObj(llm_response.toks[1].v)
    /\ Has(llm_response.toks[1].v, "price")
    /\ Has(llm_response.toks[1].v, "closeTabs")
    /\ llm_response.toks[1].v.m["closeTabs"] = JStr("yes")
    /\ Has(parsed, "filters")
    /\ Has(parsed, "closeTabs")

SubFieldPresent(key, v) ==
    CASE key = "timeRange" -> IsObj(v) /\ \E x \in DOMAIN v.m : Truthy(v.m[x])
      [] key = "price" ->
            /\ IsObj(v)
            /\ \E x \in {"min", "max"} : x \in DOMAIN v.m /\ v.m[x] # JNull
      [] OTHER -> Truthy(v)

FieldPresent(key, v) ==
    CASE key = "filters" ->
            /\ IsObj(v)
            /\ DOMAIN v.m # {}
            /\ DOMAIN v.m \subseteq FilterKeys
            /\ \A sub \in DOMAIN v.m : SubFieldPresent(sub, v.m[sub])
      [] key = "closeTabs" -> v = JBool(TRUE)
      [] OTHER -> Truthy(v)

\* C8: in every output, each key other than response_message carries a
\* semantically non-empty value; closeTabs is only ever true.
C8_OnlyPresentFields ==
    parsed # Pending =>
        \A key \in DOMAIN parsed.m \ {"response_message"} :
            FieldPresent(key, parsed.m[key])

C8_Witness ==
    /\ parsed # Pending
    /\ llm_response.toks # <<>>
    /\ llm_response.toks[1].t = "value"
    /\ IsObj(llm_response.toks[1].v)
    /\ Has(llm_response.toks[1].v, "closeTabs")
    /\ llm_response.toks[1].v.m["closeTabs"] = JBool(FALSE)
    /\ Has(llm_response.toks[1].v, "filters")
    /\ IsObj(llm_response.toks[1].v.m["filters"])
    /\ Has(llm_response.toks[1].v.m["filters"], "categories")
    /\ Has(llm_response.toks[1].v.m["filters"], "price")
    /\ Has(parsed, "filters")
    /\ DOMAIN parsed.m["filters"].m = {"price"}

---------------------------------------------------------------------------
(* Properties of the clarification-first policy.                           *)

ClarificationRule == "ALWAYS ASK FOR CLARIFICATION WHEN EXISTING FILTERS ARE APPLIED"

\* C11: the system prompt built by _get_llm_response carries the
\* clarification-first instruction when has_existing_filters is true and
\* does not carry it when the flag is false.
C11_FlagGatesPrompt ==
    PromptBuilt =>
        (ClarificationRule \in prompt.rules
            <=> has_existing_filters(ContextData(request)))

FilterTouchingWordings ==
    {"show me electronics", "show me products over $500", "viewed yesterday"}

ActiveFilters(body) ==
    HasFiltersObject(body) /\ ~AllFieldsEmpty(UiFilters(body))

\* C12: with an active filter in the UI state and no prior turn, the
\* dashboard handler's response to a filter-touching query has the key
\* response_message and no other, whatever the engine replied.
C12_ClarificationOnly ==
    (Answered /\ prompt.handler = "dashboard"
        /\ ActiveFilters(request)
        /\ has_existing_filters(ContextData(request))
        /\ ~Has(ContextData(request), "lastConversation")
        /\ request.m["query"].s \in FilterTouchingWordings) =>
        /\ IsObj(http.body)
        /\ DOMAIN http.body.m = {"response_message"}

---------------------------------------------------------------------------
(* Properties of the settings handler, the extension handler and the       *)
(* handlers' answers to a failed engine call.                              *)

\* C13: every response of the settings handler, for every context and every
\* engine outcome, has the single key generalResponse, and none of filters,
\* view_mode, sort_by, group_by, closeTabs, goto.
C13_SettingsOnlyGeneralResponse ==
    (Answered /\ invoked = {"settings"}) =>
        /\ http.status = 200
        /\ IsObj(http.body)
        /\ DOMAIN http.body.m = {"generalResponse"}
        /\ DOMAIN http.body.m
              \cap {"filters", "view_mode", "sort_by", "group_by", "closeTabs", "goto"} = {}

C13_Witness ==
    /\ Answered
    /\ invoked = {"settings"}
    /\ completion.error
    /\ http.body = JObj([key \in {"generalResponse"} |-> SettingsFallback])

Destinations ==
    {JStr("dashboard"), JStr("settings"), JStr("savings"), JStr("history"), JStr("lists")}

\* C14: in every response of the extension handler, goto is absent, null or
\* one of the five destinations.
C14_GotoIsDestination ==
    (Answered /\ invoked = {"extension"} /\ IsObj(http.body) /\ Has(http.body, "goto")) =>
        http.body.m["goto"] \in Destinations \cup {JNull}

\* C15: when the engine call fails, on any page, the endpoint answers 200
\* with the handler's fixed fallback message as the only key of the body.
C15_EngineFailureGivesFallback ==
    (Answered /\ completion.error) =>
        /\ http.status = 200
        /\ http.body = IF prompt.handler = "settings"
                       THEN JObj([key \in {"generalResponse"} |-> SettingsFallback])
                       ELSE MessageOnly(GenericErrorMessage)

C15_Witness ==
    /\ Answered
    /\ completion.error
    /\ prompt.handler = "dashboard"
    /\ http = Answer(200, MessageOnly(GenericErrorMessage))

---------------------------------------------------------------------------
(* Properties of the conversation store and the history endpoints.         *)

HAnswered == hpc = "done"

\* A GET conversations that was answered with a list of turns by a store
\* whose operations did not fail.
Listed == HAnswered /\ hrequest.op = "get" /\ hhttp.status = 200 /\ ~failed

\* The stored turns of a user, under either form of the identifier, that are
\* older than the request's before.
Qualifying(u) ==
    {d \in store : d.userId.text = u.text /\ d.createdAt < BeforeOf(hrequest, clock)}

Returned_ids == {hhttp.data[i].id : i \in DOMAIN hhttp.data}

\* The page of a listing: at most limit turns, of the user, older than
\* before, oldest first, and the newest ones when more than limit qualify.
PageIsRight(u) ==
    /\ Len(hhttp.data) <= LimitOf(hrequest)
    /\ \A i \in DOMAIN hhttp.data :
          /\ hhttp.data[i].userId = u.text
          /\ hhttp.data[i].createdAt < BeforeOf(hrequest, clock)
          /\ \E d \in store : Formatted(d) = hhttp.data[i]
    /\ \A i, j \in DOMAIN hhttp.data :
          i < j => hhttp.data[i].createdAt < hhttp.data[j].createdAt
    /\ Cardinality(Qualifying(u)) > LimitOf(hrequest) =>
          /\ Len(hhttp.data) = LimitOf(hrequest)
          /\ \A d \in Qualifying(u) : \A i \in DOMAIN hhttp.data :
                d.id \notin Returned_ids => d.createdAt < hhttp.data[i].createdAt

\* C16: get_user_conversations(user, limit, before) returns at most limit
\* turns of that user, all older than before, oldest first, and the limit
\* most recent ones when more than limit qualify.
C16_PageOfMostRecent == Listed => PageIsRight(user_id)

\* The same, for users whose identifier has the ObjectId form.
PageOfCanonicalUser == (Listed /\ ObjectIdIsValid(user_id)) => PageIsRight(user_id)

\* C17: after a DELETE conversations of a user with no save since, a GET
\* conversations of that user returns no turn and the status endpoint
\* reports messageCount 0.
C17_DeleteThenGetEmpty ==
    (HAnswered /\ hhttp.status = 200 /\ verify_token(hrequest.credentials).ok
        /\ cleared = user_id.text) =>
        /\ hrequest.op = "get" => hhttp.data = <<>>
        /\ hrequest.op = "status" => hhttp.count = 0

\* C18: a stored turn of the user that is older than before is returned by
\* get_user_conversations when the user's qualifying turns fit the limit,
\* under either form of the identifier.
C18_SavedTurnIsReturned ==
    (Listed /\ Cardinality(Qualifying(user_id)) <= LimitOf(hrequest)) =>
        \A d \in Qualifying(user_id) : d.id \in Returned_ids

\* C19: a history endpoint whose collection operation failed answers with a
\* 500-class status.
C19_StorageFailureIs500 ==
    (HAnswered /\ failed) => hhttp.status \in 500 .. 599

\* The credential verifies: signature, expiry and a userId claim.
Authentic(credentials) ==
    /\ credentials.signed
    /\ ~credentials.expired
    /\ "userId" \in DOMAIN credentials.payload
    /\ credentials.payload["userId"] # JNull

\* C20: a request whose token is invalid, expired or without userId is
\* answered 401 with no collection operation; every collection operation of
\* a request is on the userId of its verified token, and so are the turns
\* and the userId of its answer.
C20_OnlyVerifiedUser ==
    HAnswered =>
        IF ~Authentic(hrequest.credentials)
        THEN hhttp.status = 401 /\ storeOps = {}
        ELSE /\ hhttp.status # 401
             /\ \A o \in storeOps :
                   o.userId.text = hrequest.credentials.payload["userId"].text
             /\ \A i \in DOMAIN hhttp.data :
                   hhttp.data[i].userId = hrequest.credentials.payload["userId"].text
             /\ hrequest.op = "status" /\ hhttp.status = 200 =>
                   hhttp.userId = hrequest.credentials.payload["userId"].text

C20_Witness ==
    /\ HAnswered
    /\ hrequest.op = "delete"
    /\ ~hrequest.credentials.signed
    /\ hrequest.credentials.payload = "userId" :> UserA
    /\ hrequest.claimed = UserB
    /\ hhttp.status = 401
    /\ \E d \in store : d.userId = ObjectId(UserA)

---------------------------------------------------------------------------
(* Properties of the normalizer: fences, the two places of a price, and    *)
(* null sub-objects.                                                       *)

Normalized == parsed # Pending /\ ~llm_response.none

\* The reply is one JSON object inside a fence: an opening fence with or
\* without the language tag, a closing fence, whitespace around them.
FencedObject(toks) ==
    LET s == Strip(toks)
        inner == IF Len(s) >= 2 /\ s[2] = TokJson
                 THEN SubSeq(s, 3, Len(s) - 1) ELSE SubSeq(s, 2, Len(s) - 1)
    IN  /\ Len(s) >= 3
        /\ s[1] = TokFence
        /\ s[Len(s)] = TokFence
        /\ Len(Strip(inner)) = 1
        /\ Strip(inner)[1].t = "value"
        /\ IsObj(Strip(inner)[1].v)

\* The JSON object inside the fence.
Unfenced(toks) ==
    LET s == Strip(toks)
        inner == IF s[2] = TokJson
                 THEN SubSeq(s, 3, Len(s) - 1) ELSE SubSeq(s, 2, Len(s) - 1)
    IN  Strip(inner)[1].v

\* C21: a JSON object wrapped in a code fence, with or without the json
\* tag, is normalized to the result of the unwrapped object.
C21_FenceIsTransparent ==
    (Normalized /\ FencedObject(llm_response.toks)) =>
        parsed = _parse_llm_response(JsonDumps(Unfenced(llm_response.toks)))

\* The decoded payload of the reply is a dict that raises nothing.
DecodedPayload ==
    /\ Normalized
    /\ JsonDecodes(CleanedResponse(llm_response.toks))
    /\ ~NormalizeRaises(JsonLoads(CleanedResponse(llm_response.toks)))

payload == JsonLoads(CleanedResponse(llm_response.toks))

OutputPrice ==
    IF Has(parsed, "filters") /\ Has(parsed.m["filters"], "price")
    THEN parsed.m["filters"].m["price"] ELSE JNull

\* C22: the output's filters.price is the nested filters.price when the
\* payload has one, and the root price only when it has none.
C22_NestedPriceWins ==
    DecodedPayload =>
        IF FiltersEntered(payload) /\ NestedPricePresent(payload.m["filters"])
        THEN OutputPrice = payload.m["filters"].m["price"]
        ELSE IF RootPricePresent(payload) THEN OutputPrice = payload.m["price"]
        ELSE OutputPrice = JNull

\* A sub-object that is null or has only null values.
NullOrAllNull(v) == v = JNull \/ (IsObj(v) /\ \A key \in DOMAIN v.m : v.m[key] = JNull)

Without(f, keys) == [key \in DOMAIN f \ keys |-> f[key]]

NullSubObjects(d, keys) == {key \in DOMAIN d.m \cap keys : NullOrAllNull(d.m[key])}

\* The payload with its null sub-objects taken out.
DroppedNulls(d) ==
    LET top == Without(d.m, NullSubObjects(d, {"price"}))
    IN  JObj([key \in DOMAIN top |->
                IF key = "filters" /\ IsObj(top[key])
                THEN JObj(Without(top[key].m,
                                  NullSubObjects(top[key], {"timeRange", "price"})))
                ELSE top[key]])

\* C25: a payload with a null (or all-null) timeRange, nested price or root
\* price is normalized as the payload without that sub-object: the other
\* fields and the given response_message are emitted, and no fallback.
C25_NullSubObjectDropped ==
    (Normalized /\ JsonDecodes(CleanedResponse(llm_response.toks))
        /\ IsObj(payload) /\ DroppedNulls(payload) # payload) =>
        parsed = _parse_llm_response(JsonDumps(DroppedNulls(payload)))

---------------------------------------------------------------------------
(* Properties of has_existing_filters.                                     *)

\* has_existing_filters agrees with the directive of the context block.
FlagAgreesWithDirective ==
    PromptBuilt =>
        /\ has_existing_filters(ContextData(request)) => ~DirectiveIn(prompt.context)
        /\ (HasFiltersObject(request) /\ ~has_existing_filters(ContextData(request)))
              => DirectiveIn(prompt.context)

\* C26: has_existing_filters is true exactly when uiState.filters has a
\* non-empty field; when it is true the context block has no filter-clear
\* directive, and when it is false for a present filters object the block
\* has the directive.
C26_FlagIffActive ==
    /\ PromptBuilt =>
          (has_existing_filters(ContextData(request)) <=> ActiveFilters(request))
    /\ FlagAgreesWithDirective

---------------------------------------------------------------------------
(* Properties of two consecutive turns.                                    *)

EmittedFilterKeys == {"categories", "stores", "lists", "timeRange", "price"}

\* The request being handled carries the filters the normalizer emitted.
FiltersSentBack ==
    /\ parsed # Pending
    /\ Has(parsed, "filters")
    /\ DOMAIN parsed.m["filters"].m \cap EmittedFilterKeys # {}
    /\ request = NextTurnRequest(parsed)

\* C27: when the filters object the normalizer emitted, holding categories,
\* stores, lists, timeRange or price, is the next request's uiState.filters,
\* that request has has_existing_filters true and no filter-clear directive
\* in its context block.
C27_EmittedFiltersAreActive ==
    (FiltersSentBack /\ pc \in {"engine", "done"}) =>
        /\ prompt.handler = "dashboard"
        /\ has_existing_filters(ContextData(request))
        /\ ~DirectiveIn(prompt.context)

---------------------------------------------------------------------------
(* Properties of requests in flight together.                              *)

UnifiedSlots == {i \in Slots : slots[i].kind = "unified"}

\* The answer of POST /unified as a function of the request's own body and
\* of the engine's reply to its own prompt.
OwnAnswer(body, reply) ==
    IF Validation(body) # NoAnswer THEN Validation(body)
    ELSE IF ~IsObj(Metadata(body)) THEN AnswerOf(RouterOnException)
    ELSE IF HandlerPromptRaises(Route(Metadata(body)), ContextData(body))
    THEN AnswerOf(RouterResult(HandlerOnException(Route(Metadata(body)))))
    ELSE AnswerOf(RouterResult(HandlerReturn(Route(Metadata(body)), reply)))

OwnPrompt(body) ==
    HandlerPrompt(Route(Metadata(body)), body.m["query"], ContextData(body))

\* C23: however unified queries are interleaved, the attributes of the
\* ChatService, of its handlers and of the engine client stay as __init__
\* left them, the prompt of a request waiting for the engine is the prompt of
\* its own body, and the answer of a request is the answer its own body and
\* the engine's reply to its own prompt determine.
C23_NoSharedMutableState ==
    /\ service = InitialService
    /\ \A i \in UnifiedSlots :
          /\ slots[i].pc = "engine" => slots[i].prompt = OwnPrompt(slots[i].body)
          /\ slots[i].pc = "done" =>
                slots[i].answer = OwnAnswer(slots[i].body, slots[i].completion)

\* One unified query has been answered from the engine's reply while another,
\* routed to another handler, waits for the engine.
C23_Witness ==
    \E i, j \in UnifiedSlots :
        /\ slots[i].pc = "done"
        /\ slots[i].answer.status = 200
        /\ slots[i].prompt # NoPrompt
        /\ slots[j].pc = "engine"
        /\ slots[j].prompt.handler # slots[i].prompt.handler

\* The endpoint coroutine of the request in slot j can start.
CanStart(j) == ENABLED (UnifiedStart(j) \/ check_status(j) \/ SaveStart(j))

\* C24: while a unified query waits for the completion engine, a request
\* that has arrived (another unified query, GET /status, a save) can start.
C24_EngineCallSuspends ==
    \A i, j \in Slots :
        (slots[i].pc = "engine" /\ slots[j].pc = "arrived") => CanStart(j)

SavedSlots ==
    {i \in Slots : slots[i].kind = "save" /\ slots[i].pc = "done"
                   /\ slots[i].answer.status = 200}

\* The turn a successful save answered with is in the store, with the
\* fields the save was given.
SavedAsGiven(i) ==
    /\ slots[i].message \in store
    /\ slots[i].message.userId = StoredUserId(slots[i].user)
    /\ slots[i].message.query = SavedQuery
    /\ slots[i].message.response = SavedResponse
    /\ slots[i].message.source = SourceOf(slots[i].body.m["metadata"])
    /\ slots[i].message.page = PageOfTurn(slots[i].body.m["metadata"])

OneTurnPerSave ==
    /\ Cardinality(store) = inserted
    /\ \A d, e \in store : d.id = e.id => d = e
    /\ \A i \in SavedSlots : SavedAsGiven(i)

\* C28: however saves are interleaved, the store holds one distinct turn for
\* every successful save, with the query, response, source and page given,
\* and no step changes or removes a turn that is in the store.
C28_SavesAreAdditive ==
    /\ []OneTurnPerSave
    /\ [][store \subseteq store']_vars

\* Two saves of one user that were in flight together, with the same
\* timestamp, have both succeeded.
C28_Witness ==
    \E i, j \in SavedSlots :
        /\ i # j
        /\ slots[i].user = slots[j].user
        /\ slots[i].message.createdAt = slots[j].message.createdAt
        /\ slots[i].message # slots[j].message

---------------------------------------------------------------------------
(* Properties of deleting and counting.                                    *)

\* The stored turns of a user, under either form of the identifier.
TurnsOf(docs, u) == {d \in docs : d.userId.text = u.text}

\* A step in which DELETE conversations succeeds.
DeleteSucceeds ==
    /\ hpc = "store"
    /\ hrequest.op = "delete"
    /\ hpc' = "done"
    /\ hhttp'.status = 200

\* C29: a successful delete for a user leaves no turn of that user in the
\* store under either form of the identifier, leaves the turns of the other
\* users as they were, and returns the number of turns the user had.
C29_DeleteRemovesAll ==
    [][DeleteSucceeds =>
          /\ TurnsOf(store', user_id) = {}
          /\ store' \ TurnsOf(store', user_id) = store \ TurnsOf(store, user_id)
          /\ hhttp'.count = Cardinality(TurnsOf(store, user_id))]_vars

\* C30: in every store state and for every user, count_user_messages is 0
\* exactly when get_user_conversations with before = now returns no turn,
\* and the count is the number of turns returned when the user's turns fit
\* the limit.
C30_CountAgreesWithGet ==
    \A u \in Users :
        /\ count_user_messages(store, u) = 0
              <=> get_user_conversations(store, u, DefaultLimit, clock, FALSE) = <<>>
        /\ \A limit \in {MinLimit, MaxTurns, DefaultLimit} :
              Cardinality(TurnsOf(store, u)) <= limit =>
                 count_user_messages(store, u)
                    = Len(get_user_conversations(store, u, limit, clock, FALSE))

====
